---- MODULE Spec2Model ----
(***************************************************************************)
(* Semantic catalog search: the query engine of api/search.ts over the     *)
(* products table that scripts/import-products.js fills.                    *)
(*                                                                         *)
(* Representation.                                                         *)
(*  - A nullable SQL column or JS value is Null (<<>>) or Some(v) (<<v>>).  *)
(*  - Prices are whole cents; parseFloat of the DECIMAL text keeps the      *)
(*    value, so the model carries the number.                               *)
(*  - Embeddings are unit vectors (text-embedding-3-small returns           *)
(*    normalised vectors), scaled to integer coordinates of squared norm    *)
(*    VecNorm2; the cosine of two of them is Dot(a, b) / VecNorm2, so a     *)
(*    similarity is carried as its numerator over VecNorm2.                 *)
(*  - Pass-through columns (title, url, image, ...) are left out: a row is  *)
(*    known by its id.                                                      *)
(***************************************************************************)
EXTENDS Integers, Sequences, FiniteSets, TLC

VARIABLES
    products,            \* table products: id -> row
    product_categories,  \* table product_categories: set of <<product_id, category_id>>
    pc,                  \* per request: where the handler stands
    input,               \* per request: the HTTP request it serves
    qvec,                \* per request: the embedding of its query (Null until embedded)
    rows,                \* per request: result.rows of the store query
    calls,               \* per request: how often each external call was issued
    outcome,             \* per request: how each external call ended
    responses,           \* per request: the responses the handler sent, in order
    tags,                \* table tags: id -> row
    product_tags,        \* table product_tags: set of <<product_id, tag_id>>
    catalog,             \* the version of the data/*.json files on disk
    run,                 \* per ingestion run: where scripts/import-products.js stands
    started,             \* how many ingestion runs were started
    ended,               \* how the ingestion runs that are over ended, in order
    initial,             \* the store the first ingestion run started on
    normalizer,          \* one call of extractDimensions: its product and its result
    loaded,              \* the tracking scripts the shop's page includes
    location,            \* window.location and the document it shows
    clock,               \* Date.now(), in whole days
    window,              \* window.productViewTracked and window.purchaseTracked
    localStorage,        \* localStorage: key -> stored item (Null when absent)
    ready,               \* the scripts whose init() has run in this document
    timers,              \* the pending 100 ms timeouts of the pushState wrappers, in order
    dom,                 \* the target element and what was injected for its selector
    attempts,            \* the pending 500 ms timeouts of injectContent's tryInject
    console,             \* the warnings injectContent logged
    sent,                \* the events posted to the analytics API, in order
    navs                 \* how many navigations the visitor made

searchVars == <<pc, input, qvec, rows, calls, outcome, responses>>
ingestVars == <<tags, product_tags, catalog, run, started, ended, initial>>
widgetVars == <<loaded, location, clock, window, localStorage, ready, timers, dom,
                attempts, console, sent, navs>>
vars == <<products, product_categories, pc, input, qvec, rows, calls, outcome,
          responses, tags, product_tags, catalog, run, started, ended, initial,
          normalizer, loaded, location, clock, window, localStorage, ready,
          timers, dom, attempts, console, sent, navs>>

-----------------------------------------------------------------------------
(* Nullable values *)

Null == <<>>
Some(v) == <<v>>
IsNull(x) == x = Null
Val(x) == x[1]

\* JS truthiness of a nullable number: null and 0 are falsy.
Truthy(x) == ~IsNull(x) /\ Val(x) # 0

\* No page of the shop is open in a browser.
NoBrowser ==
    /\ loaded = {}
    /\ location = Null
    /\ clock = 0
    /\ window = Null
    /\ localStorage = Null
    /\ ready = {}
    /\ timers = <<>>
    /\ dom = Null
    /\ attempts = <<>>
    /\ console = {}
    /\ sent = <<>>
    /\ navs = 0

-----------------------------------------------------------------------------
(* Program constants, api/search.ts:24-27 *)

\* SIMILARITY_THRESHOLD = 0.32 = 8 / 25
SIMILARITY_THRESHOLD_NUM == 8
SIMILARITY_THRESHOLD_DEN == 25
POPULAR_SALES_THRESHOLD == 50
SCARCE_STOCK_THRESHOLD == 5
MAX_RESULTS == 50

-----------------------------------------------------------------------------
(* Bounds *)

\* The largest products table explored.
MaxProducts == 52

\* Two requests run side by side on tables of at most this many rows; on a
\* larger table one request runs alone.
MaxConcurrentRows == 11

Reqs == {"r1", "r2"}
FirstReq == "r1"

\* The ingestion script is started at most this often in a row.
MaxRuns == 2

\* Two processes running scripts/import-products.js.
Runs == {"A", "B"}
FirstRun == "A"

\* No call of extractDimensions.
NotCalled == [ description |-> <<>>, content |-> <<>>, called |-> FALSE, dimension |-> <<>> ]

\* A script that was not started.
IdleRun ==
    [ pc |-> "idle", data |-> "none", now |-> 0, ti |-> 0, b |-> 0, i |-> 0, c |-> 0,
      embeddings |-> <<>>, exists |-> FALSE, wrote |-> {}, failed_in |-> "none",
      reported |-> 0 ]

-----------------------------------------------------------------------------
(* Vectors *)

Dot(a, b) == a[1] * b[1] + a[2] * b[2] + a[3] * b[3]

vSame  == <<5, 4, -3>>
vNear  == <<4, 5, -3>>
vMid   == <<5, 3, 4>>
vMid2  == <<0, 1, -7>>
vFloor == <<3, 4, 5>>
vLow   == <<0, 5, 5>>
vNeg   == <<-5, -4, 3>>

\* Every vector of the model has this squared norm.
VecNorm2 == Dot(vSame, vSame)

\* What the embedding service may answer for a query text.
QueryVecs == {vSame, vFloor}

Queries == {"kat beeld", "vaas"}

-----------------------------------------------------------------------------
(* The products table.  A table of n rows is built row by row from cycles   *)
(* of column values whose lengths are pairwise coprime where the columns    *)
(* interact, so that a table holds every combination of them.               *)

Pick(seq, i) == seq[((i - 1) % Len(seq)) + 1]

Patterns == {"dense", "mixed"}

VisibleCycle(pat) ==
    IF pat = "dense" THEN <<TRUE>> ELSE <<TRUE, TRUE, FALSE>>

EmbeddingCycle(pat) ==
    IF pat = "dense"
    THEN <<Some(vSame), Some(vMid), Some(vMid2), Some(vFloor), Some(vNear)>>
    ELSE <<Some(vSame), Null, Some(vLow), Some(vMid), Some(vMid2), Some(vNeg), Some(vFloor)>>

StockSoldCycle == <<Some(50), Null, Some(0), Some(49), Some(120), Some(51)>>
StockCycle == <<Some(3), Null, Some(0), Some(5), Some(6), Some(1), Some(12)>>
PriceCycle == <<6500, 10000, 4500, 0>>
OldPriceCycle == <<Null, Some(10000), Some(8000)>>

ProductRow(pat, i) ==
    [ id         |-> i,
      is_visible |-> Pick(VisibleCycle(pat), i),
      embedding  |-> Pick(EmbeddingCycle(pat), i),
      price      |-> Pick(PriceCycle, i),
      old_price  |-> Pick(OldPriceCycle, i),
      stock      |-> Pick(StockCycle, i),
      stock_sold |-> Pick(StockSoldCycle, i) ]

ProductsTable(pat, n) == [i \in 1..n |-> ProductRow(pat, i)]

CategoriesOf(i) == CASE i % 3 = 0 -> {}
                     [] i % 3 = 1 -> {5}
                     [] OTHER     -> {5, 7}

CategoryLinks(n) == {l \in (1..n) \X {5, 7} : l[2] \in CategoriesOf(l[1])}

\* Table sizes: around each count the handler and the query treat differently.
TableSizes == {0, 1, 3, 10, 11, MAX_RESULTS, MAX_RESULTS + 1, MaxProducts}

-----------------------------------------------------------------------------
(* The similarity query, api/search.ts:201-216 *)

\* 1 - (p.embedding <=> $1), as a numerator over VecNorm2.
Similarity(row, q) == Dot(Val(row.embedding), q)

\* similarity >= SIMILARITY_THRESHOLD
AboveFloor(sim) ==
    sim * SIMILARITY_THRESHOLD_DEN >= SIMILARITY_THRESHOLD_NUM * VecNorm2

\* Mutant: the WHERE clause without p.is_visible = true.
Eligible_IgnoresVisibility(row, q) ==
    /\ ~IsNull(row.embedding)
    /\ AboveFloor(Similarity(row, q))

\* WHERE p.is_visible = true AND p.embedding IS NOT NULL AND similarity >= floor
Eligible(row, q) ==
    /\ row.is_visible
    /\ ~IsNull(row.embedding)
    /\ AboveFloor(Similarity(row, q))

\* p.stock_sold DESC NULLS LAST
SoldBefore(a, b) ==
    /\ ~IsNull(a.stock_sold)
    /\ (IsNull(b.stock_sold) \/ Val(a.stock_sold) > Val(b.stock_sold))

\* SQL leaves the order of rows that agree on every ORDER BY key open.
TieOrders == {"id asc", "id desc"}
TieBefore(a, b, tb) == IF tb = "id asc" THEN a.id < b.id ELSE a.id > b.id

\* Mutant: ORDER BY the distance alone.
OrderedBefore_DistanceOnly(a, b, q, tb) ==
    \/ Similarity(a, q) > Similarity(b, q)
    \/ /\ Similarity(a, q) = Similarity(b, q)
       /\ TieBefore(a, b, tb)

\* ORDER BY p.embedding <=> $1, p.stock_sold DESC NULLS LAST
OrderedBefore(a, b, q, tb) ==
    \/ Similarity(a, q) > Similarity(b, q)
    \/ /\ Similarity(a, q) = Similarity(b, q)
       /\ \/ SoldBefore(a, b)
          \/ /\ a.stock_sold = b.stock_sold
             /\ TieBefore(a, b, tb)

\* Mutant: the query without its LIMIT.
Limit_None(n) == n

\* LIMIT MAX_RESULTS
Limit(n) == IF n < MAX_RESULTS THEN n ELSE MAX_RESULTS

\* ARRAY_AGG(DISTINCT pc.category_id) FILTER (...): NULL without a link.
CategoryIds(cats, id) ==
    LET ids == {l[2] : l \in {m \in cats : m[1] = id}}
    IN IF ids = {} THEN Null ELSE Some(ids)

ResultRow(row, cats, q) ==
    [ id           |-> row.id,
      price        |-> row.price,
      old_price    |-> row.old_price,
      stock        |-> row.stock,
      stock_sold   |-> row.stock_sold,
      similarity   |-> Similarity(row, q),
      category_ids |-> CategoryIds(cats, row.id) ]

\* Mutant: the LIMIT keeps the last rows of the ORDER BY instead of the first.
SimilarityQuery_KeepsLast(prods, cats, q, tb) ==
    LET elig   == {i \in DOMAIN prods : Eligible(prods[i], q)}
        placed == {<<i, Cardinality({j \in elig :
                           OrderedBefore(prods[j], prods[i], q, tb)})>> : i \in elig}
        skip   == Cardinality(elig) - Limit(Cardinality(elig))
        at(k)  == (CHOOSE p \in placed : p[2] = skip + k - 1)[1]
    IN [k \in 1..Limit(Cardinality(elig)) |-> ResultRow(prods[at(k)], cats, q)]

\* The WHERE rows in ORDER BY order, cut at the LIMIT.  OrderedBefore is a
\* strict total order, so a row's place is the number of rows before it.
SimilarityQuery(prods, cats, q, tb) ==
    LET elig   == {i \in DOMAIN prods : Eligible(prods[i], q)}
        placed == {<<i, Cardinality({j \in elig :
                           OrderedBefore(prods[j], prods[i], q, tb)})>> : i \in elig}
        at(k)  == (CHOOSE p \in placed : p[2] = k - 1)[1]
    IN [k \in 1..Limit(Cardinality(elig)) |-> ResultRow(prods[at(k)], cats, q)]

-----------------------------------------------------------------------------
(* formatProduct, api/search.ts:127-162 *)

\* Math.round(num / den) for den > 0: the nearest integer, a half rounded up.
MathRound(num, den) == (2 * num + den) \div (2 * den)

StockSoldOf(row) == IF Truthy(row.stock_sold) THEN Val(row.stock_sold) ELSE 0
StockOf(row) == IF Truthy(row.stock) THEN Some(Val(row.stock)) ELSE Null

\* Mutant: popular only above the threshold.
IsPopular_Above(stockSold) == stockSold > POPULAR_SALES_THRESHOLD

IsPopular(stockSold) == stockSold >= POPULAR_SALES_THRESHOLD

IsScarce(stock) ==
    /\ ~IsNull(stock)
    /\ Val(stock) > 0
    /\ Val(stock) <= SCARCE_STOCK_THRESHOLD

\* row.old_price && parseFloat(row.old_price) > parseFloat(row.price):
\* a null old_price yields null, not false.
OnSale(row) ==
    IF IsNull(row.old_price) THEN Null
    ELSE Some(Val(row.old_price) > row.price)

\* row.old_price ? Math.round((1 - price / old_price) * 100) : 0
Discount(row) ==
    IF IsNull(row.old_price) THEN 0
    ELSE MathRound((Val(row.old_price) - row.price) * 100, Val(row.old_price))

formatProduct(row) ==
    [ id         |-> row.id,
      price      |-> row.price,
      oldPrice   |-> row.old_price,
      onSale     |-> OnSale(row),
      discount   |-> Discount(row),
      stock      |-> StockOf(row),
      stockSold  |-> StockSoldOf(row),
      isPopular  |-> IsPopular(StockSoldOf(row)),
      isScarce   |-> IsScarce(StockOf(row)),
      categories |-> IF IsNull(row.category_ids) THEN {} ELSE Val(row.category_ids),
      similarity |-> IF row.similarity # 0 THEN Some(row.similarity) ELSE Null ]

FormatAll(rs) == [k \in 1..Len(rs) |-> formatProduct(rs[k])]

-----------------------------------------------------------------------------
(* Advice texts, api/search.ts:32-122.  A text is a sequence of pieces;     *)
(* the empty sequence is the empty string.                                  *)

\* What generateObject may return for schema { advice: z.string() }: any
\* string, the empty one included.
GeneratedAdvice == {<<>>, <<"generated advice">>}

\* Mutant: the second bucket ends below 10.
FallbackAdvice_Below10(total) ==
    IF total = 1 THEN <<"Er is 1 perfect product voor je gevonden!">>
    ELSE IF total < 10
         THEN <<"Ik heb ", total, " mooie producten voor je gevonden!">>
         ELSE <<"Ik heb ", total, " producten gevonden! Bekijk ze allemaal en vind jouw favoriet.">>

\* catch block of generateAdviceMessage, lines 65-75
FallbackAdvice(total) ==
    IF total = 1 THEN <<"Er is 1 perfect product voor je gevonden!">>
    ELSE IF total <= 10
         THEN <<"Ik heb ", total, " mooie producten voor je gevonden!">>
         ELSE <<"Ik heb ", total, " producten gevonden! Bekijk ze allemaal en vind jouw favoriet.">>

\* catch block of generateEmptyStateMessage, lines 118-121
FallbackEmptyAdvice == <<"Wat leuk dat je hier bent! Laten we samen het perfecte kunstcadeau vinden.">>

-----------------------------------------------------------------------------
(* HTTP requests and responses *)

Methods == {"OPTIONS", "GET", "POST"}

\* req.body as the handler sees it: has_body is FALSE when req.body is
\* undefined; type and truthy are typeof query and !!query.
NoBody       == [has_body |-> FALSE, type |-> "undefined", truthy |-> FALSE, text |-> ""]
QueryAbsent  == [has_body |-> TRUE,  type |-> "undefined", truthy |-> FALSE, text |-> ""]
QueryEmpty   == [has_body |-> TRUE,  type |-> "string",    truthy |-> FALSE, text |-> ""]
QueryNumber  == [has_body |-> TRUE,  type |-> "number",    truthy |-> TRUE,  text |-> ""]
QueryZero    == [has_body |-> TRUE,  type |-> "number",    truthy |-> FALSE, text |-> ""]
QueryArray   == [has_body |-> TRUE,  type |-> "object",    truthy |-> TRUE,  text |-> ""]
QueryText(q) == [has_body |-> TRUE,  type |-> "string",    truthy |-> TRUE,  text |-> q]

Bodies == {NoBody, QueryAbsent, QueryEmpty, QueryNumber, QueryZero, QueryArray}
              \cup {QueryText(q) : q \in Queries}

Inputs == {[method |-> "POST", body |-> b] : b \in Bodies}
              \cup {[method |-> m, body |-> b] :
                        m \in Methods \ {"POST"}, b \in {NoBody, QueryText("vaas")}}

NoInput == [method |-> "", body |-> NoBody]

\* Mutant: the validation without the typeof check.
QueryRejected_NoTypeCheck(body) == ~body.truthy

\* !query || typeof query !== 'string', line 185
QueryRejected(body) == ~body.truthy \/ body.type # "string"

Response(status, success, error, results) ==
    [status |-> status, success |-> success, error |-> error, results |-> results]

OptionsResponse  == Response(200, Null, "", Null)
MethodNotAllowed == Response(405, Null, "Method not allowed", Null)
QueryRequired    == Response(400, Some(FALSE), "Query required", Null)
\* the catch block, lines 243-250
SearchFailed     == Response(500, Some(FALSE), "Search failed", Null)

\* lines 225-241
SuccessResponse(rs, advice) ==
    Response(200, Some(TRUE), "",
             Some([ total   |-> Len(rs),
                    showing |-> Len(rs),
                    items   |-> FormatAll(rs),
                    advice  |-> advice ]))

-----------------------------------------------------------------------------
(* The handler, api/search.ts:168-252.  One action runs the handler from    *)
(* one await to the next.                                                   *)

NoCalls == [embed |-> 0, store |-> 0, advice |-> 0, empty |-> 0]
NoOutcome == [embed |-> "none", store |-> "none", generate |-> "none"]

Init ==
    /\ \E pat \in Patterns, n \in TableSizes :
          /\ products = ProductsTable(pat, n)
          /\ product_categories = CategoryLinks(n)
    /\ pc = [r \in Reqs |-> "idle"]
    /\ input = [r \in Reqs |-> NoInput]
    /\ qvec = [r \in Reqs |-> Null]
    /\ rows = [r \in Reqs |-> <<>>]
    /\ calls = [r \in Reqs |-> NoCalls]
    /\ outcome = [r \in Reqs |-> NoOutcome]
    /\ responses = [r \in Reqs |-> <<>>]
    /\ tags = <<>>
    /\ product_tags = {}
    /\ catalog = "shop1"
    /\ run = [r \in Runs |-> IdleRun]
    /\ started = 0
    /\ ended = <<>>
    /\ initial = "search"
    /\ normalizer = NotCalled
    /\ NoBrowser

Respond(r, resp) ==
    /\ responses' = [responses EXCEPT ![r] = Append(@, resp)]
    /\ pc' = [pc EXCEPT ![r] = "done"]

\* Lines 174-198: the method checks, the validation and the embed call.
Receive(r) ==
    /\ pc[r] = "idle"
    /\ r = FirstReq \/ Cardinality(DOMAIN products) <= MaxConcurrentRows
    /\ \E in \in Inputs :
          /\ input' = [input EXCEPT ![r] = in]
          /\ IF in.method = "OPTIONS" THEN
                 /\ Respond(r, OptionsResponse)
                 /\ UNCHANGED calls
             ELSE IF in.method # "POST" THEN
                 /\ Respond(r, MethodNotAllowed)
                 /\ UNCHANGED calls
             ELSE IF ~in.body.has_body THEN
                 \* destructuring undefined throws inside the try
                 /\ Respond(r, SearchFailed)
                 /\ UNCHANGED calls
             ELSE IF QueryRejected(in.body) THEN
                 /\ Respond(r, QueryRequired)
                 /\ UNCHANGED calls
             ELSE
                 /\ calls' = [calls EXCEPT ![r].embed = @ + 1]
                 /\ pc' = [pc EXCEPT ![r] = "embed"]
                 /\ UNCHANGED responses
    /\ UNCHANGED <<products, product_categories, qvec, rows, outcome>>
    /\ UNCHANGED <<ingestVars, normalizer, widgetVars>>

\* Lines 195-216: embed resolves; the store query is issued.
EmbedReturns(r) ==
    /\ pc[r] = "embed"
    /\ \E v \in QueryVecs : qvec' = [qvec EXCEPT ![r] = Some(v)]
    /\ outcome' = [outcome EXCEPT ![r].embed = "ok"]
    /\ calls' = [calls EXCEPT ![r].store = @ + 1]
    /\ pc' = [pc EXCEPT ![r] = "query"]
    /\ UNCHANGED <<products, product_categories, input, rows, responses>>
    /\ UNCHANGED <<ingestVars, normalizer, widgetVars>>

\* Mutant: the embedding failure is swallowed and the store is queried anyway.
EmbedFails_GoesOn(r) ==
    /\ pc[r] = "embed"
    /\ outcome' = [outcome EXCEPT ![r].embed = "fail"]
    /\ qvec' = [qvec EXCEPT ![r] = Some(vSame)]
    /\ calls' = [calls EXCEPT ![r].store = @ + 1]
    /\ pc' = [pc EXCEPT ![r] = "query"]
    /\ UNCHANGED <<products, product_categories, input, rows, responses>>
    /\ UNCHANGED <<ingestVars, normalizer, widgetVars>>

\* embed rejects: the catch block answers.
EmbedFails(r) ==
    /\ pc[r] = "embed"
    /\ outcome' = [outcome EXCEPT ![r].embed = "fail"]
    /\ Respond(r, SearchFailed)
    /\ UNCHANGED <<products, product_categories, input, qvec, rows, calls>>
    /\ UNCHANGED <<ingestVars, normalizer, widgetVars>>

\* Mutant: result.rows is kept in one module-level variable that every
\* invocation of the handler writes and reads.
StoreReturns_SharedRows(r) ==
    /\ pc[r] = "query"
    /\ \E tb \in TieOrders :
          LET rs == SimilarityQuery(products, product_categories, Val(qvec[r]), tb)
          IN /\ rows' = [x \in Reqs |-> rs]
             /\ calls' = IF Len(rs) = 0
                         THEN [calls EXCEPT ![r].empty = @ + 1]
                         ELSE [calls EXCEPT ![r].advice = @ + 1]
    /\ outcome' = [outcome EXCEPT ![r].store = "ok"]
    /\ pc' = [pc EXCEPT ![r] = "generate"]
    /\ UNCHANGED <<products, product_categories, input, qvec, responses>>
    /\ UNCHANGED <<ingestVars, normalizer, widgetVars>>

\* Lines 216-222: the store answers; the advice generator for the count is called.
StoreReturns(r) ==
    /\ pc[r] = "query"
    /\ \E tb \in TieOrders :
          LET rs == SimilarityQuery(products, product_categories, Val(qvec[r]), tb)
          IN /\ rows' = [rows EXCEPT ![r] = rs]
             /\ calls' = IF Len(rs) = 0
                         THEN [calls EXCEPT ![r].empty = @ + 1]
                         ELSE [calls EXCEPT ![r].advice = @ + 1]
    /\ outcome' = [outcome EXCEPT ![r].store = "ok"]
    /\ pc' = [pc EXCEPT ![r] = "generate"]
    /\ UNCHANGED <<products, product_categories, input, qvec, responses>>
    /\ UNCHANGED <<ingestVars, normalizer, widgetVars>>

\* sql.query rejects: the catch block answers.
StoreFails(r) ==
    /\ pc[r] = "query"
    /\ outcome' = [outcome EXCEPT ![r].store = "fail"]
    /\ Respond(r, SearchFailed)
    /\ UNCHANGED <<products, product_categories, input, qvec, rows, calls>>
    /\ UNCHANGED <<ingestVars, normalizer, widgetVars>>

\* generateObject resolves: its advice goes into the response, lines 64, 117, 225-241.
GenerateReturns(r) ==
    /\ pc[r] = "generate"
    /\ outcome' = [outcome EXCEPT ![r].generate = "ok"]
    /\ \E a \in GeneratedAdvice : Respond(r, SuccessResponse(rows[r], a))
    /\ UNCHANGED <<products, product_categories, input, qvec, rows, calls>>
    /\ UNCHANGED <<ingestVars, normalizer, widgetVars>>

\* generateObject rejects: the generator's own catch returns the fallback text.
GenerateFails(r) ==
    /\ pc[r] = "generate"
    /\ outcome' = [outcome EXCEPT ![r].generate = "fail"]
    /\ Respond(r, SuccessResponse(rows[r],
                     IF Len(rows[r]) = 0 THEN FallbackEmptyAdvice
                     ELSE FallbackAdvice(Len(rows[r]))))
    /\ UNCHANGED <<products, product_categories, input, qvec, rows, calls>>
    /\ UNCHANGED <<ingestVars, normalizer, widgetVars>>

\* config.maxDuration, lines 18-21: the platform ends an invocation that is
\* still awaiting a call when the time is up; the handler sends nothing.
MaxDurationKill(r) ==
    /\ pc[r] \in {"embed", "query", "generate"}
    /\ pc' = [pc EXCEPT ![r] = "killed"]
    /\ UNCHANGED <<products, product_categories, input, qvec, rows, calls, outcome, responses>>
    /\ UNCHANGED <<ingestVars, normalizer, widgetVars>>

Next ==
    \E r \in Reqs :
        \/ Receive(r)
        \/ EmbedReturns(r)
        \/ EmbedFails(r)
        \/ StoreReturns(r)
        \/ StoreFails(r)
        \/ GenerateReturns(r)
        \/ GenerateFails(r)
        \/ MaxDurationKill(r)

Spec == Init /\ [][Next]_vars

\* The platform's time limit always strikes in the end; an external service
\* owes no answer.
FairSpec == Spec /\ \A r \in Reqs : WF_vars(MaxDurationKill(r))

-----------------------------------------------------------------------------
(* Properties *)

Answered(r) == pc[r] = "done"

\* The responses of request r that report success.
SuccessResponses(r) ==
    {k \in 1..Len(responses[r]) : responses[r][k].success = Some(TRUE)}

ResultsOf(r, k) == Val(responses[r][k].results)

IsErrorResponse(resp) ==
    /\ resp.status >= 400
    /\ resp.success # Some(TRUE)
    /\ IsNull(resp.results)

\* The body carries a query that is a non-empty string.
HasQueryString(body) == body.has_body /\ body.type = "string" /\ body.text # ""

\* C1: a POST request whose query is absent, empty or not a string is answered
\* with one error response, and no embedding call, store query or
\* text-generation call is issued for it.
C1_InvalidQueryRejected ==
    \A r \in Reqs :
        (pc[r] # "idle" /\ input[r].method = "POST" /\ ~HasQueryString(input[r].body))
        => /\ Answered(r)
           /\ Len(responses[r]) = 1
           /\ IsErrorResponse(responses[r][1])
           /\ calls[r] = NoCalls

C1_Witness ==
    \E r \in Reqs :
        /\ Answered(r)
        /\ input[r] = [method |-> "POST", body |-> QueryNumber]
        /\ responses[r] = <<QueryRequired>>

\* C2: in every successful response showing = total = the number of items,
\* and 0 <= showing <= 50.
C2_ShowingEqualsTotal ==
    \A r \in Reqs : \A k \in SuccessResponses(r) :
        /\ ~IsNull(responses[r][k].results)
        /\ ResultsOf(r, k).showing = ResultsOf(r, k).total
        /\ ResultsOf(r, k).total = Len(ResultsOf(r, k).items)
        /\ ResultsOf(r, k).showing >= 0
        /\ ResultsOf(r, k).showing <= 50

\* More than 50 rows match, and 50 are shown.
C2_Witness ==
    \E r \in Reqs : \E k \in SuccessResponses(r) :
        /\ ResultsOf(r, k).showing = 50
        /\ Cardinality({i \in DOMAIN products :
               /\ products[i].is_visible
               /\ ~IsNull(products[i].embedding)
               /\ 100 * Dot(Val(products[i].embedding), Val(qvec[r])) >= 32 * VecNorm2})
             > 50

\* C3: every item of a successful response is a stored product that is
\* visible, has an embedding, and whose similarity to the query vector, which
\* the item reports, is at least 0.32.
C3_ItemsEligible ==
    \A r \in Reqs : \A k \in SuccessResponses(r) :
        \A n \in 1..Len(ResultsOf(r, k).items) :
            LET item == ResultsOf(r, k).items[n]
            IN /\ item.id \in DOMAIN products
               /\ products[item.id].is_visible
               /\ ~IsNull(products[item.id].embedding)
               /\ item.similarity =
                      Some(Dot(Val(products[item.id].embedding), Val(qvec[r])))
               /\ 100 * Val(item.similarity) >= 32 * VecNorm2

\* An item exactly at the floor is returned while the table also holds an
\* invisible row that matches the query, a row without embedding, and a
\* visible row below the floor.
C3_Witness ==
    \E r \in Reqs : \E k \in SuccessResponses(r) :
        /\ \E n \in 1..Len(ResultsOf(r, k).items) :
              100 * Val(ResultsOf(r, k).items[n].similarity) = 32 * VecNorm2
        /\ \E i \in DOMAIN products :
              /\ ~products[i].is_visible
              /\ ~IsNull(products[i].embedding)
              /\ 100 * Dot(Val(products[i].embedding), Val(qvec[r])) >= 32 * VecNorm2
        /\ \E i \in DOMAIN products : IsNull(products[i].embedding)
        /\ \E i \in DOMAIN products :
              /\ products[i].is_visible
              /\ ~IsNull(products[i].embedding)
              /\ 100 * Dot(Val(products[i].embedding), Val(qvec[r])) < 32 * VecNorm2

\* units-sold of a goes before or with units-sold of b: non-increasing, a
\* missing value last.
SoldNotAfter(a, b) == IsNull(b) \/ (~IsNull(a) /\ Val(a) >= Val(b))

\* C4: the items of a successful response are in non-increasing similarity,
\* and adjacent items of equal similarity are in non-increasing units-sold,
\* products without a units-sold value last.
C4_ItemsOrdered ==
    \A r \in Reqs : \A k \in SuccessResponses(r) :
        \A n \in 1..(Len(ResultsOf(r, k).items) - 1) :
            LET a == ResultsOf(r, k).items[n]
                b == ResultsOf(r, k).items[n + 1]
            IN /\ Val(a.similarity) >= Val(b.similarity)
               /\ Val(a.similarity) = Val(b.similarity)
                  => SoldNotAfter(products[a.id].stock_sold, products[b.id].stock_sold)

\* Two adjacent items tie in similarity and differ in units-sold, and two
\* adjacent items tie where the second has no units-sold value.
C4_Witness ==
    \E r \in Reqs : \E k \in SuccessResponses(r) :
        LET items == ResultsOf(r, k).items
            tied(n) == Val(items[n].similarity) = Val(items[n + 1].similarity)
        IN /\ \E n \in 1..(Len(items) - 1) :
                 /\ tied(n)
                 /\ ~IsNull(products[items[n + 1].id].stock_sold)
                 /\ products[items[n].id].stock_sold # products[items[n + 1].id].stock_sold
           /\ \E n \in 1..(Len(items) - 1) :
                 /\ tied(n)
                 /\ ~IsNull(products[items[n].id].stock_sold)
                 /\ IsNull(products[items[n + 1].id].stock_sold)

\* The advice of the one response of an answered request.
AdviceOf(r) == ResultsOf(r, 1).advice

\* C5: when the embedding call and the store query both succeed, the request
\* is answered with one success response whose advice is not empty, whether
\* the text generation succeeds or fails; the empty-mode generator is called
\* exactly when the store returned no rows, the results-mode generator
\* otherwise.
C5_AdviceAlwaysPresent ==
    \A r \in Reqs :
        (Answered(r) /\ outcome[r].embed = "ok" /\ outcome[r].store = "ok")
        => /\ Len(responses[r]) = 1
           /\ responses[r][1].status = 200
           /\ responses[r][1].success = Some(TRUE)
           /\ AdviceOf(r) # <<>>
           /\ calls[r].empty = (IF Len(rows[r]) = 0 THEN 1 ELSE 0)
           /\ calls[r].advice = (IF Len(rows[r]) = 0 THEN 0 ELSE 1)

\* C6: when the text generation fails the advice is fixed by the result
\* count alone: one text for 0, one for 1, one template for 2..10 and one for
\* more than 10, so two requests with the same count get the same advice
\* whatever their query texts.
C6_FallbackByCount ==
    /\ \A r \in Reqs :
          (Answered(r) /\ outcome[r].generate = "fail")
          => LET total == ResultsOf(r, 1).total
             IN AdviceOf(r) =
                  CASE total = 0 ->
                         <<"Wat leuk dat je hier bent! Laten we samen het perfecte kunstcadeau vinden.">>
                    [] total = 1 ->
                         <<"Er is 1 perfect product voor je gevonden!">>
                    [] total >= 2 /\ total <= 10 ->
                         <<"Ik heb ", total, " mooie producten voor je gevonden!">>
                    [] total > 10 ->
                         <<"Ik heb ", total, " producten gevonden! Bekijk ze allemaal en vind jouw favoriet.">>
    /\ \A r1, r2 \in Reqs :
          ( /\ Answered(r1) /\ outcome[r1].generate = "fail"
            /\ Answered(r2) /\ outcome[r2].generate = "fail"
            /\ ResultsOf(r1, 1).total = ResultsOf(r2, 1).total )
          => AdviceOf(r1) = AdviceOf(r2)

\* Two requests with different query texts and the same count, above 10, both
\* answered from the fallback.
C6_Witness ==
    \E r1, r2 \in Reqs :
        /\ Answered(r1) /\ outcome[r1].generate = "fail"
        /\ Answered(r2) /\ outcome[r2].generate = "fail"
        /\ input[r1].body.text # input[r2].body.text
        /\ ResultsOf(r1, 1).total = ResultsOf(r2, 1).total
        /\ ResultsOf(r1, 1).total > 10

\* C7: when the embedding call or the store query fails, the request ends
\* with exactly one error response without results, the failed call was
\* issued once, and no later step was invoked: no store query after an
\* embedding failure, no advice generation after either failure.
C7_FailureIsOneError ==
    \A r \in Reqs :
        (outcome[r].embed = "fail" \/ outcome[r].store = "fail")
        => /\ Answered(r)
           /\ Len(responses[r]) = 1
           /\ IsErrorResponse(responses[r][1])
           /\ responses[r][1].success = Some(FALSE)
           /\ calls[r].embed = 1
           /\ calls[r].store = (IF outcome[r].embed = "fail" THEN 0 ELSE 1)
           /\ calls[r].advice = 0
           /\ calls[r].empty = 0

\* One request failed in the embedding, the other in the store query.
C7_Witness ==
    \E r1, r2 \in Reqs :
        /\ outcome[r1].embed = "fail"
        /\ outcome[r2].embed = "ok" /\ outcome[r2].store = "fail"

\* C8: every request that awaits an external call is answered in the end: a
\* call that never returns is given up as failed and the handler responds.
C8_EveryRequestAnswered ==
    \A r \in Reqs : (pc[r] \in {"embed", "query", "generate"}) ~> Answered(r)

\* C9: onSale holds exactly when a prior price exists and exceeds the price,
\* and then discount = round((1 - price / priorPrice) * 100); in every other
\* case onSale does not hold and discount = 0.
C9_SaleAndDiscount ==
    \A r \in Reqs : \A k \in SuccessResponses(r) :
        \A n \in 1..Len(ResultsOf(r, k).items) :
            LET item  == ResultsOf(r, k).items[n]
                row   == products[item.id]
                prior == row.old_price
            IN IF ~IsNull(prior) /\ Val(prior) > row.price
               THEN /\ item.onSale = Some(TRUE)
                    \* discount is the integer nearest to 100 * (prior - price) / prior
                    /\ 2 * (100 * (Val(prior) - row.price) - item.discount * Val(prior))
                           <= Val(prior)
                    /\ 2 * (item.discount * Val(prior) - 100 * (Val(prior) - row.price))
                           <= Val(prior)
               ELSE /\ item.onSale # Some(TRUE)
                    /\ item.discount = 0

-----------------------------------------------------------------------------
(* Concurrent search requests *)

\* What the handler of lines 168-252 answers to the request in when it is the
\* only one running on the store: q is the vector its embed call returned,
\* out how its calls ended, tb the order the store gave to ties and a the
\* advice the generator returned.
SequentialResponse(in, q, out, tb, a) ==
    IF in.method = "OPTIONS" THEN OptionsResponse
    ELSE IF in.method # "POST" THEN MethodNotAllowed
    ELSE IF ~in.body.has_body THEN SearchFailed
    ELSE IF QueryRejected(in.body) THEN QueryRequired
    ELSE IF out.embed = "fail" \/ out.store = "fail" THEN SearchFailed
    ELSE LET rs == SimilarityQuery(products, product_categories, Val(q), tb)
         IN SuccessResponse(rs,
                IF out.generate = "ok" THEN a
                ELSE IF Len(rs) = 0 THEN FallbackEmptyAdvice
                ELSE FallbackAdvice(Len(rs)))

\* C11: no step of a search request writes the store, and whatever the other
\* request is doing, the response a request sends is the one response the
\* handler gives to its own input, its own embedding and its own call
\* outcomes when it runs alone on the same store contents.
C11_RequestsIndependent ==
    [][/\ products' = products
       /\ product_categories' = product_categories
       /\ \A r \in Reqs :
             responses'[r] # responses[r] =>
                \E tb \in TieOrders, a \in GeneratedAdvice :
                    responses'[r] =
                        <<SequentialResponse(input'[r], qvec'[r], outcome'[r], tb, a)>>]_vars

\* One request has been answered with results while the other, embedded to a
\* different vector and holding a different result list, awaits its advice.
C11_Witness ==
    /\ pc["r1"] = "generate" /\ pc["r2"] = "done"
    /\ SuccessResponses("r2") # {}
    /\ qvec["r1"] # qvec["r2"]
    /\ Len(rows["r1"]) > 0 /\ Len(rows["r2"]) > 0
    /\ rows["r1"] # rows["r2"]

-----------------------------------------------------------------------------
(* Ingestion: scripts/import-products.js.                                   *)
(*                                                                         *)
(* The data files are known by a version name; Catalog(name) is what the   *)
(* script parses from them.  A title is a number standing for a text, and   *)
(* an embedding text is the sequence of its parts.  A raw variant holds the *)
(* JSON values priceIncl, oldPriceIncl (cents), stockLevel and stockSold.   *)

\* Line 322.
BATCH_SIZE == 50

Variant(priceIncl, oldPriceIncl, stockLevel, stockSold) ==
    Some([ priceIncl |-> priceIncl, oldPriceIncl |-> oldPriceIncl,
           stockLevel |-> stockLevel, stockSold |-> stockSold ])

Product(id, isVisible, title, variant) ==
    [ id |-> id, isVisible |-> isVisible, title |-> title, variant |-> variant ]

Tag(id, title, isVisible) == [ id |-> id, title |-> title, isVisible |-> isVisible ]

\* A shop of four products, one of them hidden and one without a default variant.
Shop1 ==
    [ products |-> << Product(1, TRUE, 101, Variant(6500, 0, 3, 50)),
                      Product(2, TRUE, 102, Variant(4500, 8000, 0, 0)),
                      Product(3, FALSE, 103, Variant(10000, 0, 6, 120)),
                      Product(4, TRUE, 104, Null) >>,
      categories |-> << Tag(10, 210, TRUE), Tag(11, 211, TRUE) >>,
      categoriesProducts |-> << <<1, 10>>, <<1, 11>>, <<2, 10>>, <<3, 10>> >>,
      tags |-> << Tag(1, 301, TRUE), Tag(2, 302, FALSE) >>,
      tagsProducts |-> << <<1, 1>>, <<2, 2>>, <<2, 1>> >> ]

\* The same shop later: product 1 repriced, 2 hidden, 3 shown, 5 new; the link
\* of product 1 to category 10 and the old tag links are gone; tag 1 is renamed.
Shop2 ==
    [ products |-> << Product(1, TRUE, 101, Variant(6000, 6500, 2, 51)),
                      Product(2, FALSE, 102, Variant(4500, 8000, 0, 0)),
                      Product(3, TRUE, 103, Variant(10000, 0, 6, 120)),
                      Product(4, TRUE, 104, Null),
                      Product(5, TRUE, 105, Variant(0, 0, 1, 0)) >>,
      categories |-> << Tag(10, 210, TRUE), Tag(11, 211, TRUE) >>,
      categoriesProducts |-> << <<1, 11>>, <<2, 10>>, <<5, 10>> >>,
      tags |-> << Tag(1, 311, TRUE), Tag(2, 302, FALSE), Tag(3, 303, TRUE) >>,
      tagsProducts |-> << <<1, 3>>, <<5, 3>> >> ]

\* A shop whose tag links name a tag (9) that tags.json does not hold.
Shop3 ==
    [ Shop1 EXCEPT !.tagsProducts = << <<1, 1>>, <<2, 9>>, <<4, 1>> >> ]

\* A shop of MaxProducts products, all but the seventh visible: more than one batch.
BigProduct(i) ==
    Product(i, i # 7, 100 + i,
            IF i % 5 = 0 THEN Null
            ELSE Variant(Pick(PriceCycle, i), IF i % 2 = 0 THEN 0 ELSE 8000, i % 7, i))

BigShop ==
    [ products |-> [i \in 1..MaxProducts |-> BigProduct(i)],
      categories |-> << Tag(10, 210, TRUE) >>,
      categoriesProducts |-> << <<1, 10>>, <<MaxProducts, 10>> >>,
      tags |-> << Tag(1, 301, TRUE), Tag(2, 302, FALSE) >>,
      tagsProducts |-> << <<2, 2>>, <<MaxProducts, 1>> >> ]

Catalogs == {"shop1", "shop2", "shop3", "big"}

Catalog(name) ==
    CASE name = "shop1" -> Shop1
      [] name = "shop2" -> Shop2
      [] name = "shop3" -> Shop3
      [] OTHER          -> BigShop

\* The files change between two syncs of the shop.
NextVersion(name) == IF name = "shop1" THEN {"shop2", "shop3"} ELSE {}

-----------------------------------------------------------------------------
(* The script's pure functions *)

\* Lines 34-45 and 191-193: the default variant as variantMap keeps it, or
\* the literal the script falls back to.  `x || 0` and `x ? f(x) : null`
\* turn a 0 into 0 and into null.
VariantOf(product) ==
    IF IsNull(product.variant)
    THEN [ priceIncl |-> 0, oldPriceIncl |-> Null, stock |-> 0, stockSold |-> 0 ]
    ELSE LET v == Val(product.variant)
         IN [ priceIncl    |-> v.priceIncl,
              oldPriceIncl |-> IF v.oldPriceIncl # 0 THEN Some(v.oldPriceIncl) ELSE Null,
              stock        |-> v.stockLevel,
              stockSold    |-> v.stockSold ]

\* Lines 162-173: the targets of a product's links, in file order.
LinkTargets(links, productId) ==
    LET own == SelectSeq(links, LAMBDA l : l[1] = productId)
    IN [k \in 1..Len(own) |-> own[k][2]]

getProductCategories(data, productId) == LinkTargets(data.categoriesProducts, productId)
getProductTags(data, productId) == LinkTargets(data.tagsProducts, productId)

\* Lines 49-53 and 68-73: categoryMap holds every category, tagMap the visible tags.
TitlesOf(entries, ids) ==
    LET known == SelectSeq(ids, LAMBDA id : \E k \in DOMAIN entries :
                                   entries[k].id = id /\ entries[k].isVisible)
    IN [k \in 1..Len(known) |->
           (CHOOSE e \in {entries[j] : j \in DOMAIN entries} : e.id = known[k]).title]

\* Lines 78-113.
buildEmbeddingText(data, product) ==
    <<product.title>>
      \o TitlesOf(data.categories, getProductCategories(data, product.id))
      \o TitlesOf(data.tags, getProductTags(data, product.id))

RECURSIVE SumOf(_)
SumOf(text) == IF text = <<>> THEN 0 ELSE Head(text) + SumOf(Tail(text))

\* The embedding model is a function of the text: equal texts, equal vectors.
EmbeddingModel(text) ==
    Pick(<<vSame, vNear, vMid, vMid2, vFloor, vLow, vNeg>>, SumOf(text))

\* Mutant: the vectors come back one place off.
embedMany_Shifted(texts) ==
    [k \in DOMAIN texts |-> EmbeddingModel(texts[(k % Len(texts)) + 1])]

\* Lines 184-187: one vector per text, in the order of the texts.
embedMany(texts) == [k \in DOMAIN texts |-> EmbeddingModel(texts[k])]

\* Mutant: every record is processed, hidden or not.
visibleProducts_All(data) == data.products

\* Line 315.
visibleProducts(data) == SelectSeq(data.products, LAMBDA p : p.isVisible)

\* Lines 324-327: slices of BATCH_SIZE, the last one shorter.
NumBatches(n) == (n + BATCH_SIZE - 1) \div BATCH_SIZE

\* Mutant: the slice ends one record late.
BatchOf_Overlap(visible, b) ==
    SubSeq(visible, (b - 1) * BATCH_SIZE + 1,
           IF b * BATCH_SIZE + 1 < Len(visible) THEN b * BATCH_SIZE + 1 ELSE Len(visible))

BatchOf(visible, b) ==
    SubSeq(visible, (b - 1) * BATCH_SIZE + 1,
           IF b * BATCH_SIZE < Len(visible) THEN b * BATCH_SIZE ELSE Len(visible))

\* Lines 210-259: the columns UPDATE and INSERT set; both set the same ones.
\* updated_at is NOW() in the UPDATE and the column default in the INSERT.
StoreRow(product, embedding, now) ==
    LET variant == VariantOf(product)
    IN [ id         |-> product.id,
         title      |-> product.title,
         is_visible |-> product.isVisible,
         embedding  |-> Some(embedding),
         price      |-> variant.priceIncl,
         old_price  |-> variant.oldPriceIncl,
         stock      |-> Some(variant.stock),
         stock_sold |-> Some(variant.stockSold),
         updated_at |-> now ]

\* Lines 299-310.
TagRow(tag, now) ==
    [ id |-> tag.id, title |-> tag.title, is_visible |-> tag.isVisible, updated_at |-> now ]

-----------------------------------------------------------------------------
(* The store an ingestion run starts on *)

InitialStores == {"empty", "stocked"}

\* "stocked" is what earlier imports left: product 1 with older values,
\* product 3 from when it was visible, product 9 that the shop no longer
\* lists, and links and tags of that time.
InitialProducts(name) ==
    IF name = "empty" THEN <<>>
    ELSE LET old == << Product(1, TRUE, 101, Variant(7000, 0, 9, 12)),
                       Product(3, TRUE, 103, Variant(10000, 0, 6, 120)),
                       Product(9, TRUE, 109, Variant(2500, 0, 1, 3)) >>
         IN [id \in {1, 3, 9} |->
                LET p == CHOOSE q \in {old[k] : k \in DOMAIN old} : q.id = id
                IN StoreRow(p, EmbeddingModel(<<p.title>>), 0)]

InitialCategoryLinks(name) ==
    IF name = "empty" THEN {} ELSE {<<1, 12>>, <<3, 10>>}

InitialTags(name) ==
    IF name = "empty" THEN <<>>
    ELSE (1 :> TagRow(Tag(1, 300, TRUE), 0)) @@ (7 :> TagRow(Tag(7, 307, TRUE), 0))

InitialTagLinks(name) ==
    IF name = "empty" THEN {} ELSE {<<3, 1>>, <<9, 7>>}

-----------------------------------------------------------------------------
(* One run of the script.  Every awaited call is a step. *)

Data(r) == Catalog(run[r].data)
CurrentBatch(r) == BatchOf(visibleProducts(Data(r)), run[r].b)
CurrentProduct(r) == CurrentBatch(r)[run[r].i]

BatchSteps == {"embed", "select", "write", "cats", "tagjoin"}

\* What the store rejects a statement with.
ConstraintErrors == {"duplicate key", "foreign key"}
Awaiting == {"tags", "stats"} \cup BatchSteps
Over == {"done", "failed"}

\* The run takes the state st; a run that is over is entered in `ended`
\* with the data it had loaded and the ids of the product rows it wrote.
Step(r, st) ==
    /\ run' = [run EXCEPT ![r] = st]
    /\ ended' = IF st.pc \in Over
                THEN Append(ended, [how |-> st.pc, data |-> st.data, wrote |-> st.wrote])
                ELSE ended

\* Lines 331-334 and 346-357: the batch after batch b, or the final count.
AfterBatch(st, data) ==
    IF st.b < NumBatches(Len(visibleProducts(data)))
    THEN [st EXCEPT !.pc = "embed", !.b = @ + 1, !.i = 0, !.c = 0, !.embeddings = <<>>]
    ELSE [st EXCEPT !.pc = "stats", !.i = 0, !.c = 0]

\* Mutant: the embedding call is made in the loop, once per product.
AfterProduct_EmbedEach(st, data) ==
    IF st.i < Len(BatchOf(visibleProducts(data), st.b))
    THEN [st EXCEPT !.pc = "embed", !.i = @ + 1, !.c = 0]
    ELSE AfterBatch(st, data)

\* Line 189: the next product of the batch.
AfterProduct(st, data) ==
    IF st.i < Len(BatchOf(visibleProducts(data), st.b))
    THEN [st EXCEPT !.pc = "select", !.i = @ + 1, !.c = 0]
    ELSE AfterBatch(st, data)

\* Lines 273-281: the product's tag links, if it has any.
ToTagLinks(st, data, productId) ==
    IF Len(getProductTags(data, productId)) > 0
    THEN [st EXCEPT !.pc = "tagjoin", !.c = 1]
    ELSE AfterProduct(st, data)

\* Lines 263-271: the product's category links, if it has any.
ToCategoryLinks(st, data, productId) ==
    IF Len(getProductCategories(data, productId)) > 0
    THEN [st EXCEPT !.pc = "cats", !.c = 1]
    ELSE ToTagLinks(st, data, productId)

\* Lines 360-368: an error that reaches main().catch ends the process with
\* exit code 1.
Thrown(st, where) ==
    [st EXCEPT !.pc = "failed", !.failed_in = where, !.reported = @ + 1]

\* Mutant: the catch block of processBatch logs the error and returns.
BatchThrown_Swallowed(st, data, where) ==
    [AfterBatch(st, data) EXCEPT !.failed_in = where]

\* Lines 286-289: the catch block of processBatch logs and rethrows.
BatchThrown(st, data, where) == Thrown(st, where)

\* Lines 17-23 and 295-298: the process starts, parses the data files and
\* turns to the tags.
StartRun(r) ==
    /\ run[r].pc \in {"idle"} \cup Over
    /\ started < MaxRuns
    /\ catalog = "big" => IF ended = <<>> THEN TRUE
                          ELSE Tail(ended) = <<>> /\ Head(ended).how = "failed"
    /\ started' = started + 1
    /\ LET st == [IdleRun EXCEPT !.data = catalog, !.now = started + 1]
           data == Catalog(catalog)
       IN Step(r, IF Len(data.tags) > 0 THEN [st EXCEPT !.pc = "tags", !.ti = 1]
                  ELSE AfterBatch(st, data))
    /\ UNCHANGED <<products, product_categories, tags, product_tags, catalog, initial>>
    /\ UNCHANGED <<searchVars, normalizer, widgetVars>>

\* Mutant: like tagMap, the loop takes the visible tags only.
UpsertTag_VisibleOnly(r) ==
    /\ run[r].pc = "tags"
    /\ LET data == Data(r)
           tag == data.tags[run[r].ti]
       IN /\ tags' = IF tag.isVisible
                     THEN [id \in DOMAIN tags \cup {tag.id} |->
                              IF id = tag.id THEN TagRow(tag, run[r].now) ELSE tags[id]]
                     ELSE tags
          /\ Step(r, IF run[r].ti < Len(data.tags) THEN [run[r] EXCEPT !.ti = @ + 1]
                     ELSE AfterBatch(run[r], data))
    /\ UNCHANGED <<products, product_categories, product_tags, catalog, started, initial>>
    /\ UNCHANGED <<searchVars, normalizer, widgetVars>>

\* Lines 299-310: INSERT ... ON CONFLICT (id) DO UPDATE for the next tag,
\* visible or not; after the last tag the products are filtered and batched.
UpsertTag(r) ==
    /\ run[r].pc = "tags"
    /\ LET data == Data(r)
           tag == data.tags[run[r].ti]
       IN /\ tags' = [id \in DOMAIN tags \cup {tag.id} |->
                         IF id = tag.id THEN TagRow(tag, run[r].now) ELSE tags[id]]
          /\ Step(r, IF run[r].ti < Len(data.tags) THEN [run[r] EXCEPT !.ti = @ + 1]
                     ELSE AfterBatch(run[r], data))
    /\ UNCHANGED <<products, product_categories, product_tags, catalog, started, initial>>
    /\ UNCHANGED <<searchVars, normalizer, widgetVars>>

\* Lines 181-187: embedMany resolves with the vectors of the batch's texts.
EmbedManyReturns(r) ==
    /\ run[r].pc = "embed"
    /\ LET data == Data(r)
           batch == CurrentBatch(r)
           texts == [k \in DOMAIN batch |-> buildEmbeddingText(data, batch[k])]
       IN Step(r, [run[r] EXCEPT !.pc = "select", !.i = 1, !.embeddings = embedMany(texts)])
    /\ UNCHANGED <<products, product_categories, tags, product_tags, catalog, started, initial>>
    /\ UNCHANGED <<searchVars, normalizer, widgetVars>>

\* Lines 205-208: SELECT id FROM products WHERE id = ...
SelectReturns(r) ==
    /\ run[r].pc = "select"
    /\ Step(r, [run[r] EXCEPT !.pc = "write",
                              !.exists = CurrentProduct(r).id \in DOMAIN products])
    /\ UNCHANGED <<products, product_categories, tags, product_tags, catalog, started, initial>>
    /\ UNCHANGED <<searchVars, normalizer, widgetVars>>

\* Mutant: a product whose row the SELECT found is taken as imported and
\* skipped, row and links.
WriteProduct_SkipExisting(r) ==
    /\ run[r].pc = "write"
    /\ LET data == Data(r)
           product == CurrentProduct(r)
           row == StoreRow(product, run[r].embeddings[run[r].i], run[r].now)
           st == [run[r] EXCEPT !.wrote = @ \cup {product.id}]
       IN IF run[r].exists THEN
              /\ products' = products
              /\ Step(r, AfterProduct(run[r], data))
          ELSE IF product.id \in DOMAIN products THEN
              /\ products' = products
              /\ Step(r, BatchThrown(run[r], data, "duplicate key"))
          ELSE
              /\ products' = [id \in DOMAIN products \cup {product.id} |->
                                 IF id = product.id THEN row ELSE products[id]]
              /\ Step(r, ToCategoryLinks(st, data, product.id))
    /\ UNCHANGED <<product_categories, tags, product_tags, catalog, started, initial>>
    /\ UNCHANGED <<searchVars, normalizer, widgetVars>>

\* Lines 208-260: UPDATE the row the SELECT found, else INSERT one.  An
\* INSERT of an id that is in the table by now fails on the primary key;
\* an UPDATE of an id that is not changes no row.
WriteProduct(r) ==
    /\ run[r].pc = "write"
    /\ LET data == Data(r)
           product == CurrentProduct(r)
           row == StoreRow(product, run[r].embeddings[run[r].i], run[r].now)
           st == [run[r] EXCEPT !.wrote = @ \cup {product.id}]
       IN IF run[r].exists THEN
              /\ products' = IF product.id \in DOMAIN products
                             THEN [products EXCEPT ![product.id] = row]
                             ELSE products
              /\ Step(r, ToCategoryLinks(st, data, product.id))
          ELSE IF product.id \in DOMAIN products THEN
              /\ products' = products
              /\ Step(r, BatchThrown(run[r], data, "duplicate key"))
          ELSE
              /\ products' = [id \in DOMAIN products \cup {product.id} |->
                                 IF id = product.id THEN row ELSE products[id]]
              /\ Step(r, ToCategoryLinks(st, data, product.id))
    /\ UNCHANGED <<product_categories, tags, product_tags, catalog, started, initial>>
    /\ UNCHANGED <<searchVars, normalizer, widgetVars>>

\* Mutant: a plain INSERT, which the key of the table rejects for a pair
\* that is there.
InsertCategoryLink_Plain(r) ==
    /\ run[r].pc = "cats"
    /\ LET data == Data(r)
           product == CurrentProduct(r)
           links == getProductCategories(data, product.id)
           link == <<product.id, links[run[r].c]>>
       IN IF link \in product_categories THEN
              /\ product_categories' = product_categories
              /\ Step(r, BatchThrown(run[r], data, "duplicate key"))
          ELSE
              /\ product_categories' = product_categories \cup {link}
              /\ Step(r, IF run[r].c < Len(links) THEN [run[r] EXCEPT !.c = @ + 1]
                         ELSE ToTagLinks(run[r], data, product.id))
    /\ UNCHANGED <<products, tags, product_tags, catalog, started, initial>>
    /\ UNCHANGED <<searchVars, normalizer, widgetVars>>

\* Lines 264-271: INSERT ... ON CONFLICT (product_id, category_id) DO NOTHING.
InsertCategoryLink(r) ==
    /\ run[r].pc = "cats"
    /\ LET data == Data(r)
           product == CurrentProduct(r)
           links == getProductCategories(data, product.id)
       IN /\ product_categories' = product_categories \cup {<<product.id, links[run[r].c]>>}
          /\ Step(r, IF run[r].c < Len(links) THEN [run[r] EXCEPT !.c = @ + 1]
                     ELSE ToTagLinks(run[r], data, product.id))
    /\ UNCHANGED <<products, tags, product_tags, catalog, started, initial>>
    /\ UNCHANGED <<searchVars, normalizer, widgetVars>>

\* Mutant: the product's tag links are brought in line with the data: links
\* the data no longer holds are deleted with the insert.
InsertTagLink_Replace(r) ==
    /\ run[r].pc = "tagjoin"
    /\ LET data == Data(r)
           product == CurrentProduct(r)
           links == getProductTags(data, product.id)
           tagId == links[run[r].c]
           stale == {l \in product_tags :
                        l[1] = product.id /\ \A k \in DOMAIN links : links[k] # l[2]}
       IN IF tagId \in DOMAIN tags THEN
              /\ product_tags' = (product_tags \ stale) \cup {<<product.id, tagId>>}
              /\ Step(r, IF run[r].c < Len(links) THEN [run[r] EXCEPT !.c = @ + 1]
                         ELSE AfterProduct(run[r], data))
          ELSE
              /\ product_tags' = product_tags
              /\ Step(r, BatchThrown(run[r], data, "foreign key"))
    /\ UNCHANGED <<products, product_categories, tags, catalog, started, initial>>
    /\ UNCHANGED <<searchVars, normalizer, widgetVars>>

\* Lines 274-281: INSERT ... ON CONFLICT (product_id, tag_id) DO NOTHING;
\* tag_id REFERENCES tags(id), so a link to a tag the table lacks fails.
InsertTagLink(r) ==
    /\ run[r].pc = "tagjoin"
    /\ LET data == Data(r)
           product == CurrentProduct(r)
           links == getProductTags(data, product.id)
           tagId == links[run[r].c]
       IN IF tagId \in DOMAIN tags THEN
              /\ product_tags' = product_tags \cup {<<product.id, tagId>>}
              /\ Step(r, IF run[r].c < Len(links) THEN [run[r] EXCEPT !.c = @ + 1]
                         ELSE AfterProduct(run[r], data))
          ELSE
              /\ product_tags' = product_tags
              /\ Step(r, BatchThrown(run[r], data, "foreign key"))
    /\ UNCHANGED <<products, product_categories, tags, catalog, started, initial>>
    /\ UNCHANGED <<searchVars, normalizer, widgetVars>>

\* Lines 346-357: the final count; the script ends.
StatsReturns(r) ==
    /\ run[r].pc = "stats"
    /\ Step(r, [run[r] EXCEPT !.pc = "done"])
    /\ UNCHANGED <<products, product_categories, tags, product_tags, catalog, started, initial>>
    /\ UNCHANGED <<searchVars, normalizer, widgetVars>>

\* The call the script awaits rejects: the embedding service or a statement.
CallFails(r) ==
    /\ run[r].pc \in Awaiting
    /\ Step(r, IF run[r].pc \in BatchSteps
               THEN BatchThrown(run[r], Data(r), run[r].pc)
               ELSE Thrown(run[r], run[r].pc))
    /\ UNCHANGED <<products, product_categories, tags, product_tags, catalog, started, initial>>
    /\ UNCHANGED <<searchVars, normalizer, widgetVars>>

\* sync-lightspeed.js rewrites the data files.
CatalogSync ==
    /\ \E v \in NextVersion(catalog) : catalog' = v
    /\ UNCHANGED <<products, product_categories, tags, product_tags, run, started, ended, initial>>
    /\ UNCHANGED <<searchVars, normalizer, widgetVars>>

IngestInitOn(cat, init) ==
    /\ catalog = cat
    /\ initial = init
    /\ products = InitialProducts(init)
    /\ product_categories = InitialCategoryLinks(init)
    /\ tags = InitialTags(init)
    /\ product_tags = InitialTagLinks(init)
    /\ run = [r \in Runs |-> IdleRun]
    /\ started = 0
    /\ ended = <<>>
    /\ pc = [r \in Reqs |-> "idle"]
    /\ input = [r \in Reqs |-> NoInput]
    /\ qvec = [r \in Reqs |-> Null]
    /\ rows = [r \in Reqs |-> <<>>]
    /\ calls = [r \in Reqs |-> NoCalls]
    /\ outcome = [r \in Reqs |-> NoOutcome]
    /\ responses = [r \in Reqs |-> <<>>]

\* The script run alone, again and again: section 5 of the README's
\* workflow, one `npm run import` at a time.
IngestInit ==
    /\ \/ \E init \in InitialStores : IngestInitOn("shop1", init)
       \/ IngestInitOn("big", "empty")
    /\ normalizer = NotCalled
    /\ NoBrowser

IngestNext ==
    \/ StartRun(FirstRun)
    \/ UpsertTag(FirstRun)
    \/ EmbedManyReturns(FirstRun)
    \/ SelectReturns(FirstRun)
    \/ WriteProduct(FirstRun)
    \/ InsertCategoryLink(FirstRun)
    \/ InsertTagLink(FirstRun)
    \/ StatsReturns(FirstRun)
    \/ CallFails(FirstRun)
    \/ CatalogSync

IngestSpec == IngestInit /\ [][IngestNext]_vars

\* Two processes started side by side on the small shop, each once, with no
\* call failing for a reason of its own.
ConcurrentInit ==
    /\ \E init \in InitialStores : IngestInitOn("shop1", init)
    /\ normalizer = NotCalled
    /\ NoBrowser

ConcurrentNext ==
    \/ \E r \in Runs :
          \/ run[r].pc = "idle" /\ StartRun(r)
          \/ UpsertTag(r)
          \/ EmbedManyReturns(r)
          \/ SelectReturns(r)
          \/ WriteProduct(r)
          \/ InsertCategoryLink(r)
          \/ InsertTagLink(r)
          \/ StatsReturns(r)
    \/ CatalogSync /\ catalog' # "shop3"

ConcurrentSpec == ConcurrentInit /\ [][ConcurrentNext]_vars

-----------------------------------------------------------------------------
(* Ingestion properties *)

LastEnded == ended[Len(ended)]

\* A product row without its update timestamp: the scalar fields and the embedding.
Scalars(row) == [row EXCEPT !.updated_at = 0]

\* The run that is under way started on the data the run before it had.
RunsAgainOnSameData(r) ==
    /\ run[r].pc \in Awaiting
    /\ ended # <<>>
    /\ LastEnded.data = run[r].data

\* C12: a run that upserts again, from unchanged data, a record that the run
\* before it upserted leaves the scalar fields and the embedding of its row
\* as they were; after a complete run, no step of the second run adds a join
\* row, removes one or is rejected by the key of a join table, so each pair
\* of the data keeps its one row.
C12_UpsertIdempotent ==
    [][RunsAgainOnSameData(FirstRun) =>
          /\ \A id \in LastEnded.wrote :
                /\ id \in DOMAIN products'
                /\ Scalars(products'[id]) = Scalars(products[id])
          /\ LastEnded.how = "done" =>
                /\ product_categories' = product_categories
                /\ product_tags' = product_tags
                /\ run'[FirstRun].failed_in \notin ConstraintErrors]_vars

\* A second run on unchanged data has completed after a complete first run,
\* and it rewrote rows: their timestamps are its own.
C12_Witness ==
    /\ Len(ended) = MaxRuns
    /\ \A k \in DOMAIN ended : ended[k].how = "done" /\ ended[k].data = "shop1"
    /\ ended[1].wrote = {1, 2, 4} /\ LastEnded.wrote = {1, 2, 4}
    /\ \A id \in LastEnded.wrote : products[id].updated_at = MaxRuns
    /\ {<<1, 10>>, <<1, 11>>, <<2, 10>>} \subseteq product_categories
    /\ {<<1, 1>>, <<2, 2>>, <<2, 1>>} \subseteq product_tags

\* The row a complete run leaves for a record of its data, timestamp aside.
RowOf(data, product) ==
    Scalars(StoreRow(product, EmbeddingModel(buildEmbeddingText(data, product)), 0))

\* C13: when a run has completed without a failure, every visible record of
\* the data it loaded has its row under its id, with the scalar fields derived
\* from the record and the embedding of the record's own text; the row is
\* visible and has an embedding, so search can return it.
C13_VisibleRecordsStored ==
    run[FirstRun].pc = "done" =>
        LET data == Data(FirstRun)
        IN \A k \in DOMAIN data.products :
              LET p == data.products[k]
              IN p.isVisible =>
                    /\ p.id \in DOMAIN products
                    /\ products[p.id].id = p.id
                    /\ Scalars(products[p.id]) = RowOf(data, p)
                    /\ products[p.id].is_visible
                    /\ ~IsNull(products[p.id].embedding)

\* A run over the large shop is complete: two batches, every visible product stored.
C13_Witness ==
    /\ run[FirstRun].pc = "done"
    /\ run[FirstRun].data = "big"
    /\ run[FirstRun].b = NumBatches(MaxProducts - 1)
    /\ run[FirstRun].b > 1
    /\ Cardinality(DOMAIN products) = MaxProducts - 1

\* C14: no step of a run inserts, updates or deletes the row of a record
\* that is hidden in the data the run loaded, and no step deletes a product
\* row; so a row stored while its record was visible stays visible and
\* keeps its embedding when the record is hidden later.
C14_HiddenRecordsUntouched ==
    [][/\ DOMAIN products \subseteq DOMAIN products'
       /\ run[FirstRun].pc \in Awaiting =>
             LET data == Data(FirstRun)
             IN \A k \in DOMAIN data.products :
                   LET id == data.products[k].id
                   IN ~data.products[k].isVisible =>
                         IF id \in DOMAIN products
                         THEN id \in DOMAIN products' /\ products'[id] = products[id]
                         ELSE id \notin DOMAIN products']_vars

\* Product 2 was stored by a run while visible and hidden afterwards; a
\* complete run on the new data has left its row as the first run wrote it.
C14_Witness ==
    /\ run[FirstRun].pc = "done"
    /\ run[FirstRun].data = "shop2"
    /\ run[FirstRun].now > 1
    /\ 2 \in DOMAIN products
    /\ products[2].is_visible
    /\ ~IsNull(products[2].embedding)
    /\ products[2].updated_at = 1
    /\ products[5].updated_at = run[FirstRun].now

\* The ids of the product rows that bear the timestamp of the run.
WrittenBy(r) == {id \in DOMAIN products : products[id].updated_at = run[r].now}

\* The failures that end a batch, by what rejected.
BatchFailures == BatchSteps \cup ConstraintErrors

\* The rejected statement came after the write of the product's own row.
FailedAfterRow(r) == run[r].failed_in \in {"cats", "tagjoin", "foreign key"}

\* How many products of the run's list come before the one it failed on.
DoneBefore(r) ==
    (run[r].b - 1) * BATCH_SIZE + (IF run[r].i = 0 THEN 0 ELSE run[r].i - 1)

\* C15: once a call of a run has failed, the run is over and has reported
\* one failure.  If it failed in batch k, the rows it wrote are those of the
\* batches before k and of the products of batch k before the failing one
\* (and the failing product's row, if the failure came after it), each as
\* written with its join rows; nothing of a later product or batch is written.
C15_BatchFailureStops ==
    run[FirstRun].failed_in # "none" =>
        /\ run[FirstRun].pc = "failed"
        /\ run[FirstRun].reported = 1
        /\ LastEnded.how = "failed"
        /\ run[FirstRun].failed_in \in BatchFailures =>
              LET data == Data(FirstRun)
                  visible == visibleProducts(data)
                  n == DoneBefore(FirstRun)
                  last == IF FailedAfterRow(FirstRun) THEN n + 1 ELSE n
              IN /\ WrittenBy(FirstRun) = {visible[k].id : k \in 1..last}
                 /\ \A k \in 1..last :
                       Scalars(products[visible[k].id]) = RowOf(data, visible[k])
                 /\ \A k \in 1..n :
                       LET id == visible[k].id
                           cats == getProductCategories(data, id)
                           tgs == getProductTags(data, id)
                       IN /\ \A j \in DOMAIN cats : <<id, cats[j]>> \in product_categories
                          /\ \A j \in DOMAIN tgs : <<id, tgs[j]>> \in product_tags

\* The write of the first product of the second batch was rejected: the
\* first batch is stored, nothing of the second is.
C15_Witness ==
    /\ run[FirstRun].pc = "failed"
    /\ run[FirstRun].failed_in = "write"
    /\ run[FirstRun].b > 1
    /\ run[FirstRun].i = 1
    /\ Cardinality(WrittenBy(FirstRun)) = BATCH_SIZE
    /\ Cardinality(DOMAIN products) = BATCH_SIZE

\* The links of the visible products of the data: <<product id, target>>.
LinksOfVisible(data, links) ==
    {<<links[k][1], links[k][2]>> : k \in {j \in DOMAIN links :
        \E v \in DOMAIN data.products :
            data.products[v].id = links[j][1] /\ data.products[v].isVisible}}

\* The product rows, timestamps aside.
ProductScalars == [id \in DOMAIN products |-> Scalars(products[id])]

\* The rows one complete run on the data adds to the store the first run
\* started on: what C13 and C14 give for such a run.
ProductsAfterOneRun(init, data) ==
    LET visible == visibleProducts(data)
        ids == {visible[k].id : k \in DOMAIN visible}
        old == InitialProducts(init)
    IN [id \in DOMAIN old \cup ids |->
           IF id \in ids
           THEN RowOf(data, CHOOSE p \in {visible[k] : k \in DOMAIN visible} : p.id = id)
           ELSE Scalars(old[id])]

\* Every run so far loaded the same data, all but the last one failed, and
\* the last one is complete and no other was started since.
CompletedAfterFailures ==
    /\ run[FirstRun].pc = "done"
    /\ ended # <<>>
    /\ \A k \in DOMAIN ended :
          /\ ended[k].data = run[FirstRun].data
          /\ ended[k].how = (IF k = Len(ended) THEN "done" ELSE "failed")

\* C16: when runs on unchanged data failed and the run after them is
\* complete, the product rows (timestamps aside) and the join rows are those
\* one uninterrupted complete run leaves on the same initial store; the
\* formula includes that run itself, so it states what such a run leaves.
C16_RerunConverges ==
    CompletedAfterFailures =>
        LET data == Data(FirstRun)
        IN /\ ProductScalars = ProductsAfterOneRun(initial, data)
           /\ product_categories =
                 InitialCategoryLinks(initial) \cup LinksOfVisible(data, data.categoriesProducts)
           /\ product_tags =
                 InitialTagLinks(initial) \cup LinksOfVisible(data, data.tagsProducts)

\* A run over the large shop failed in its second batch and the run after
\* it is complete.
C16_Witness ==
    /\ CompletedAfterFailures
    /\ Len(ended) > 1
    /\ run[FirstRun].data = "big"
    /\ run[FirstRun].b > 1
    /\ Cardinality(ended[1].wrote) > BATCH_SIZE
    /\ Cardinality(LastEnded.wrote) = MaxProducts - 1

\* The row that the run r writes for the product id, timestamp aside.
WriteOf(r, id) ==
    LET data == Data(r)
    IN RowOf(data, CHOOSE p \in {data.products[k] : k \in DOMAIN data.products} : p.id = id)

\* C17: when two runs upsert the same products side by side, neither run
\* fails, and when both are complete each row written by both holds the data
\* of one of the two writes, whole.
C17_ConcurrentUpsertsComplete ==
    /\ \A r \in Runs : run[r].pc # "failed"
    /\ (\A r \in Runs : run[r].pc = "done") =>
          \A id \in run["A"].wrote \cap run["B"].wrote :
              Scalars(products[id]) \in {WriteOf("A", id), WriteOf("B", id)}

\* Every tag link of the data names a tag of the data's tag set.
TagLinksKnown(data) ==
    \A k \in DOMAIN data.tagsProducts :
        \E t \in DOMAIN data.tags : data.tags[t].id = data.tagsProducts[k][2]

\* The tags table holds every tag of the data, visible or not, as the run upserts it.
TagsUpserted(r) ==
    LET data == Data(r)
    IN \A t \in DOMAIN data.tags :
          /\ data.tags[t].id \in DOMAIN tags
          /\ tags[data.tags[t].id].title = data.tags[t].title
          /\ tags[data.tags[t].id].is_visible = data.tags[t].isVisible

\* C18: a step of a run that writes a product row or a join row finds every
\* tag of the run's data, visible or not, upserted; and when every tag link
\* of the data names a tag of the data, no insert of a product-tag row is
\* rejected for its tag and every row inserted names a row of the tags table.
C18_TagsBeforeProducts ==
    [][run[FirstRun].pc \in Awaiting =>
          /\ (\/ products' # products
              \/ product_categories' # product_categories
              \/ product_tags' # product_tags) => TagsUpserted(FirstRun)
          /\ TagLinksKnown(Data(FirstRun)) =>
                /\ run'[FirstRun].failed_in # "foreign key"
                /\ \A l \in product_tags' \ product_tags : l[2] \in DOMAIN tags']_vars

\* On a store that was empty, a run has linked product 2 to tag 2, a hidden
\* tag that the run upserted.
C18_Witness ==
    /\ initial = "empty"
    /\ run[FirstRun].data = "shop1"
    /\ <<2, 2>> \in product_tags
    /\ 2 \in DOMAIN tags
    /\ ~tags[2].is_visible
    /\ tags[2].updated_at = run[FirstRun].now

\* C19: no step of any run of any sequence of runs removes a join row: both
\* join tables only grow.  A pair has one row by the key of its table, and
\* the insert of a pair that is there is not rejected on that key.
C19_JoinRowsOnlyGrow ==
    [][/\ product_categories \subseteq product_categories'
       /\ product_tags \subseteq product_tags'
       /\ run'[FirstRun].failed_in # "duplicate key"]_vars

\* After complete runs on the old and on the new data, the links that the
\* new data dropped are in the tables next to the new ones.
C19_Witness ==
    /\ run[FirstRun].pc = "done"
    /\ run[FirstRun].data = "shop2"
    /\ ended # <<>> /\ ended[1].data = "shop1" /\ ended[1].how = "done"
    /\ {<<1, 10>>, <<1, 11>>, <<5, 10>>} \subseteq product_categories
    /\ {<<1, 1>>, <<1, 3>>, <<2, 2>>, <<5, 3>>} \subseteq product_tags

-----------------------------------------------------------------------------
(* extractDimensions, scripts/import-products.js:126-159.                   *)
(*                                                                         *)
(* A text is a sequence of tokens: a run of digits ("24"), one white-space  *)
(* character (" "), a punctuation character, an HTML tag ("<p>"), or a word *)
(* ("cm", "x", "hoogte" for any of the labels of the second pattern,        *)
(* "afmetingen", "w" for any other word).  \d+ takes a whole run of digits  *)
(* and \s* every white-space character, since what follows them in the      *)
(* patterns is neither; a match is the one with the leftmost start, and an  *)
(* optional group is tried before its absence.                              *)

Numbers == {"5", "12", "24", "30", "40", "50", "100", "120", "160"}
Labels == {"hoogte"}
Words == Numbers \cup Labels \cup {"x", "cm", "afmetingen", "circa", "hoog", "w"}

\* text[i], or white space past the end; never a word.
At(text, i) == IF i \in DOMAIN text THEN text[i] ELSE " "

\* The first index from i on whose token is not in skip.
Skip(text, i, skip) ==
    IF i > Len(text) THEN i
    ELSE CHOOSE j \in i..(Len(text) + 1) :
            /\ At(text, j) \notin skip \/ j = Len(text) + 1
            /\ \A k \in i..(j - 1) : text[k] \in skip

\* \d+\s*x\s*\d+(?:\s*x\s*\d+)? from i: the indices after two and after
\* three axes, the longer first.
AxesEnds(text, i) ==
    LET x1 == Skip(text, i + 1, {" "})
        n2 == Skip(text, x1 + 1, {" "})
        x2 == Skip(text, n2 + 1, {" "})
        n3 == Skip(text, x2 + 1, {" "})
        two == At(text, i) \in Numbers /\ At(text, x1) = "x" /\ At(text, n2) \in Numbers
        three == two /\ At(text, x2) = "x" /\ At(text, n3) \in Numbers
    IN (IF three THEN <<n3 + 1>> ELSE <<>>) \o (IF two THEN <<n2 + 1>> ELSE <<>>)

\* \d+(?:,\d+)? from i: the indices after the number with and without its
\* decimals, the longer first.
NumberEnds(text, i) ==
    LET one == At(text, i) \in Numbers
        dec == one /\ At(text, i + 1) = "," /\ At(text, i + 2) \in Numbers
    IN (IF dec THEN <<i + 3>> ELSE <<>>) \o (IF one THEN <<i + 1>> ELSE <<>>)

\* \s*cm from e; with \b, no word character follows the unit.
UnitAt(text, e, boundary) ==
    LET c == Skip(text, e, {" "})
    IN At(text, c) = "cm" /\ (boundary => At(text, c + 1) \notin Words)

\* The capture <<from, end>> of the first of the ends after which the unit
\* stands, or <<>>.
Capture(text, from, ends, boundary) ==
    LET good == SelectSeq(ends, LAMBDA e : UnitAt(text, e, boundary))
    IN IF good = <<>> THEN <<>> ELSE <<from, Head(good)>>

\* The four patterns tried at the index i.
PatternAt(k, text, i) ==
    CASE k = 1 ->
           \* /\b(\d+\s*x\s*\d+(?:\s*x\s*\d+)?)\s*cm\b/i
           IF At(text, i - 1) \in Words THEN <<>>
           ELSE Capture(text, i, AxesEnds(text, i), TRUE)
      [] k = 2 ->
           \* /(?:hoogte|diameter|breedte|lengte|afmeting)[:\s]*(\d+(?:,\d+)?)\s*cm/i
           IF At(text, i) \notin Labels THEN <<>>
           ELSE LET n == Skip(text, i + 1, {":", " "})
                IN Capture(text, n, NumberEnds(text, n), FALSE)
      [] k = 3 ->
           \* /afmetingen?[:\s]*(\d+\s*x\s*\d+(?:\s*x\s*\d+)?)\s*cm/i
           IF At(text, i) # "afmetingen" THEN <<>>
           ELSE LET n == Skip(text, i + 1, {":", " "})
                IN Capture(text, n, AxesEnds(text, n), FALSE)
      [] OTHER ->
           \* /(?:circa|ca\.?|ongeveer)?\s*(\d+(?:,\d+)?)\s*cm(?:\s+hoog)?/i
           Capture(text, i, NumberEnds(text, i), FALSE)

\* text.match(pattern): match[1] of the leftmost match, or Null.
Match(k, text) ==
    LET starts == {i \in DOMAIN text : PatternAt(k, text, i) # <<>>}
    IN IF starts = {} THEN Null
       ELSE LET first == CHOOSE i \in starts : \A j \in starts : i <= j
                cap == PatternAt(k, text, first)
            IN Some(SubSeq(text, cap[1], cap[2] - 1))

HtmlTags == {"<p>", "</p>"}

\* .replace(/<[^>]*>/g, '')
StripHtml(text) == SelectSeq(text, LAMBDA t : t \notin HtmlTags)

\* Lines 127-130: the stripped fields that are not empty, joined by a space.
DimensionText(product) ==
    LET fields == <<product.description, product.content>>
        parts == SelectSeq(fields, LAMBDA f : ~IsNull(f) /\ StripHtml(Val(f)) # <<>>)
    IN IF parts = <<>> THEN <<>>
       ELSE IF Len(parts) = 1 THEN StripHtml(Val(parts[1]))
       ELSE StripHtml(Val(parts[1])) \o <<" ">> \o StripHtml(Val(parts[2]))

\* /\d\s*x\s*\d/.test(dimension)
HasAxes(dimension) ==
    \E i \in DOMAIN dimension :
        /\ dimension[i] \in Numbers
        /\ LET x == Skip(dimension, i + 1, {" "})
           IN /\ At(dimension, x) = "x"
              /\ At(dimension, Skip(dimension, x + 1, {" "})) \in Numbers

\* dimension.replace(',', '.'): the first comma.
CommaToDot(dimension) ==
    LET commas == {i \in DOMAIN dimension : dimension[i] = ","}
    IN [i \in DOMAIN dimension |->
           IF i \in commas /\ \A j \in commas : i <= j THEN "." ELSE dimension[i]]

\* Lines 147-154: what is returned for match[1].
Normalized(capture) ==
    LET dimension == CommaToDot(capture)
    IN IF ~HasAxes(dimension) /\ dimension[Len(dimension)] # "cm"
       THEN dimension \o <<" ", "cm">>
       ELSE dimension

\* The number of patterns, lines 133-142.
NumPatterns == 4

\* Lines 144-158: the patterns in their order; the first that matches decides.
extractDimensions(product) ==
    LET text == DimensionText(product)
        hits == {k \in 1..NumPatterns : ~IsNull(Match(k, text))}
    IN IF hits = {} THEN Null
       ELSE Some(Normalized(Val(Match(CHOOSE k \in hits : \A j \in hits : k <= j, text))))

\* Phrases that descriptions are made of.
Hoogte24cm == <<"hoogte", " ", "24", " ", "cm">>
ThreeAxes == <<"100", " ", "x", " ", "100", " ", "x", " ", "50", " ", "cm">>
BareThreeAxes == <<"100", " ", "x", " ", "100", " ", "x", " ", "50">>

Phrases ==
    { Hoogte24cm,
      ThreeAxes,
      <<"160", "x", "120", "cm">>,
      <<"<p>", "w", " ", "w", "</p>">>,
      <<"circa", " ", "24", ",", "5", " ", "cm", " ", "hoog">>,
      <<"afmetingen", ":", " ", "30", " ", "x", " ", "40", " ", "cm">>,
      <<"hoogte", ":", "30", ",", "5", "cm">>,
      <<"12", " ", "x">>,
      <<"50", " ", "w">>,
      <<"<p>", "5", "</p>", "cm">>,
      <<"w", "40", "x", "40", "cm", "w">>,
      <<"cm">> }

\* A field holds at most this many phrases.
MaxPhrases == 2

RECURSIVE TextsUpTo(_)
TextsUpTo(n) ==
    IF n = 0 THEN {<<>>}
    ELSE LET shorter == TextsUpTo(n - 1)
         IN shorter \cup {IF t = <<>> THEN p ELSE t \o <<" ">> \o p :
                             t \in shorter, p \in Phrases}

Descriptions == {Null} \cup {Some(t) : t \in TextsUpTo(MaxPhrases)}
Contents == {Null} \cup {Some(p) : p \in Phrases}

\* The normalizer is handed a product and calls extractDimensions on it.
NormalizerInit ==
    /\ IngestInitOn("shop1", "empty")
    /\ NoBrowser
    /\ \E d \in Descriptions, c \in Contents :
          normalizer = [NotCalled EXCEPT !.description = d, !.content = c]

ExtractDimensions ==
    /\ ~normalizer.called
    /\ normalizer' = [normalizer EXCEPT !.called = TRUE,
                                        !.dimension = extractDimensions(normalizer)]
    /\ UNCHANGED <<products, product_categories, searchVars, ingestVars, widgetVars>>

NormalizerSpec == NormalizerInit /\ [][ExtractDimensions]_vars

\* The text holds the measurement, and no "x" before it that another
\* multi-axis measurement could be made of.
FirstAxesAre(text, measurement) ==
    \E i \in DOMAIN text :
        /\ i + Len(measurement) - 1 <= Len(text)
        /\ SubSeq(text, i, i + Len(measurement) - 1) = measurement
        /\ At(text, i - 1) \notin Words
        /\ \A j \in 1..(i - 1) : text[j] # "x"

\* C20: of the stripped description and content, "Hoogte 24 cm" yields
\* "24 cm"; a text with the multi-axis measurement "100 x 100 x 50 cm" yields
\* that measurement with its unit, "100 x 100 x 50 cm", whatever single
\* measurements stand around it; a text without a measurement yields null.
C20_DimensionExamples ==
    normalizer.called =>
        LET text == DimensionText(normalizer)
        IN /\ text = Hoogte24cm => normalizer.dimension = Some(<<"24", " ", "cm">>)
           /\ FirstAxesAre(text, ThreeAxes) => normalizer.dimension = Some(ThreeAxes)
           /\ (\A i \in DOMAIN text : text[i] # "cm") => IsNull(normalizer.dimension)

-----------------------------------------------------------------------------
(***************************************************************************)
(* The tracking widgets: widget.js (version 7, two scripts of that name)   *)
(* and public/widget.js (version 6), as they run in the visitor's browser. *)
(*                                                                         *)
(* Representation.                                                         *)
(*  - A page stands for a URL and the document it shows: what the          *)
(*    extract* and is*Page functions find in them are its fields.          *)
(*  - The clock counts whole days; a timestamp is the day it was taken.    *)
(*  - localStorage holds texts; a text is carried as the number it was     *)
(*    made of, 0 standing for the empty string.                            *)
(*  - The url and title keys are written, read and removed together with   *)
(*    the product id key and are left out.                                 *)
(*  - A handler runs to its end before the next one starts (one thread):   *)
(*    a handler is a function from the browser's state to its next state.  *)
(***************************************************************************)

\* public/widget.js:14
TRACKING_EXPIRY_DAYS == 7
\* widget.js:541, the default of injectContent's parameter retries
RETRIES == 10
\* widget.js:419 and widget.js:1104, the fixed revenue of a purchase
REVENUE == 10

\* The scripts: public/widget.js, and the first and the second script of
\* widget.js.
Scripts == {"public", "first", "second"}
WidgetScripts == {"first", "second"}

\* What a shop page includes: one of the three scripts, or widget.js whole.
Installations == {{"public"}, {"first"}, {"second"}, {"first", "second"}}

\* The script whose functions window.KunstpakketAnalytics holds: each script
\* assigns it when it is evaluated, the last one wins.
Api(scripts) ==
    IF "second" \in scripts THEN "second"
    ELSE IF "first" \in scripts THEN "first" ELSE "public"

Plain ==
    [product |-> FALSE, html |-> FALSE, utm |-> FALSE, thankyou |-> FALSE,
     product_id |-> Null, product_price |-> Null, order_total |-> Null,
     click |-> Null, container |-> TRUE]

\* /beeld.html?utm_source=bluestars-ai-site on a page that shows a price
Landing ==
    [Plain EXCEPT !.html = TRUE, !.utm = TRUE, !.product_id = Some(1),
                  !.product_price = Some(25)]
\* the same link to a page on which no price is found
LandingNoPrice ==
    [Plain EXCEPT !.html = TRUE, !.utm = TRUE, !.product_id = Some(2)]
\* /product/beeld without the utm_source parameter
Catalogued ==
    [Plain EXCEPT !.product = TRUE, !.product_id = Some(2), !.product_price = Some(30)]
\* /thankyou on a page that shows the order total
ThankYouTotal == [Plain EXCEPT !.thankyou = TRUE, !.order_total = Some(40)]
\* /thankyou on a page without an order total
ThankYou == [Plain EXCEPT !.thankyou = TRUE]
\* /beeld.html?bsclick=1&bssid=7&bspid=1
Clicked ==
    [Plain EXCEPT !.html = TRUE, !.click = Some([search_id |-> 7, product_id |-> 1])]
\* /beeld.html?bsclick=1&bssid=7, the product id missing
ClickedNoProduct ==
    [Plain EXCEPT !.html = TRUE, !.click = Some([search_id |-> 7, product_id |-> 0])]
\* a page whose .container-bar element is rendered after the scripts ran
Shell == [Plain EXCEPT !.container = FALSE]

\* The pages a visitor of a shop with these scripts comes to.
Sitemap(scripts) ==
    IF scripts = {"public"}
    THEN {Plain, Clicked, ClickedNoProduct, ThankYou}
    ELSE {Landing, Catalogued, ThankYou, ThankYouTotal}

StorageKeys ==
    {"kp_product_id", "kp_product_price", "kp_view_timestamp",
     "kp_search_id", "kp_last_product_id"}

NoFlags == [productViewTracked |-> FALSE, purchaseTracked |-> FALSE]
EmptyStorage == [k \in StorageKeys |-> Null]
Document(page) ==
    [element |-> page.container, wrappers |-> 0, styles |-> 0, scripts |-> 0]

\* The state the handlers of the scripts read and write.
Browser ==
    [location |-> location, window |-> window, localStorage |-> localStorage,
     dom |-> dom, attempts |-> attempts, console |-> console, sent |-> sent]

Becomes(b) ==
    /\ location' = b.location
    /\ window' = b.window
    /\ localStorage' = b.localStorage
    /\ dom' = b.dom
    /\ attempts' = b.attempts
    /\ console' = b.console
    /\ sent' = b.sent

getItem(b, key) == b.localStorage[key]
setItem(b, key, value) == [b EXCEPT !.localStorage[key] = Some(value)]
removeItem(b, key) == [b EXCEPT !.localStorage[key] = Null]

\* value || '' and value.toString(): the text of a nullable number
Text(x) == IF Truthy(x) THEN Val(x) ELSE 0

\* An event as the analytics API receives it, with the script that posted it,
\* the navigation it was posted after and the age in days of the stored data
\* it carries. Of product_url, the event keeps whether it holds
\* utm_source=bluestars-ai-site.
NoEvent ==
    [event |-> "none", by |-> "none", nav |-> 0, utm |-> FALSE, product_id |-> Null,
     product_price |-> Null, order_total |-> Null, revenue |-> Null,
     search_id |-> Null, age |-> Null]

\* The age of what was stored on a day.
Age(day) == IF IsNull(day) THEN Null ELSE Some(clock - Val(day))

fetch(b, body) == [b EXCEPT !.sent = Append(@, [body EXCEPT !.nav = navs])]

-----------------------------------------------------------------------------
(* widget.js: the functions of the first (8-671) and second (680-1200) script *)

hasUTMParameters(page) == page.utm
isProductPage(page) == page.product \/ (page.html /\ hasUTMParameters(page))
isThankYouPage(page) == page.thankyou
extractProductId(page) == page.product_id
extractProductPrice(page) == page.product_price
extractOrderTotal(page) == page.order_total

trackEvent(b, eventData) == fetch(b, eventData)

saveProductViewInfo(b) ==
    LET b1 == setItem(b, "kp_product_id", Text(extractProductId(b.location)))
        b2 == setItem(b1, "kp_product_price", Text(extractProductPrice(b.location)))
    IN setItem(b2, "kp_view_timestamp", clock)

\* The first script posts the price with the view, the second does not.
trackProductView(s, b) ==
    IF ~hasUTMParameters(b.location) THEN b
    ELSE IF b.window.productViewTracked THEN b
    ELSE LET view == [NoEvent EXCEPT
                         !.event = "view", !.by = s,
                         !.utm = hasUTMParameters(b.location),
                         !.product_id = extractProductId(b.location),
                         !.product_price = IF s = "first"
                                           THEN extractProductPrice(b.location)
                                           ELSE Null]
             b1 == saveProductViewInfo(trackEvent(b, view))
         IN [b1 EXCEPT !.window.productViewTracked = TRUE]

clearStoredProductInfo(b) ==
    [b EXCEPT !.localStorage =
        [k \in StorageKeys |->
            IF k \in {"kp_product_id", "kp_product_price", "kp_view_timestamp"}
            THEN Null ELSE @[k]]]

ViewTooOld_EightDays(b) ==
    /\ ~IsNull(getItem(b, "kp_view_timestamp"))
    /\ clock - Val(getItem(b, "kp_view_timestamp")) > 8

\* getStoredProductInfo finds a timestamp (a text that is never empty) and
\* the stored view older than 7 days.
ViewTooOld(b) ==
    /\ ~IsNull(getItem(b, "kp_view_timestamp"))
    /\ clock - Val(getItem(b, "kp_view_timestamp")) > 7

\* What getStoredProductInfo returns: null for a view that is too old, else
\* the stored texts, an empty or absent one read as null.
getStoredProductInfo(b) ==
    IF ViewTooOld(b) THEN Null
    ELSE Some([product_id |-> IF Truthy(getItem(b, "kp_product_id"))
                              THEN getItem(b, "kp_product_id") ELSE Null,
               product_price |-> IF Truthy(getItem(b, "kp_product_price"))
                                 THEN getItem(b, "kp_product_price") ELSE Null,
               recorded |-> getItem(b, "kp_view_timestamp")])

\* What getStoredProductInfo leaves in localStorage.
StoredProductInfoRead(b) == IF ViewTooOld(b) THEN clearStoredProductInfo(b) ELSE b

\* storedInfo?.field
Stored(storedInfo, field) == IF IsNull(storedInfo) THEN Null ELSE Val(storedInfo)[field]

\* a || b of two nullable numbers
Or(a, b) == IF Truthy(a) THEN a ELSE b

\* The order total of the first script: the page's, else the stored price,
\* else none. That of the second: the stored price, else the page's, else 0.
OrderTotal(s, storedInfo, page) ==
    IF s = "first"
    THEN Or(extractOrderTotal(page), Stored(storedInfo, "product_price"))
    ELSE Or(Or(Stored(storedInfo, "product_price"), extractOrderTotal(page)), Some(0))

trackPurchase(s, b) ==
    IF b.window.purchaseTracked THEN b
    ELSE LET b1 == [b EXCEPT !.window.purchaseTracked = TRUE]
             storedInfo == getStoredProductInfo(b1)
             b2 == StoredProductInfoRead(b1)
             orderTotal == OrderTotal(s, storedInfo, b.location)
             purchase == [NoEvent EXCEPT
                             !.event = "purchase", !.by = s,
                             !.product_id = Or(Stored(storedInfo, "product_id"),
                                               extractProductId(b.location)),
                             !.order_total = orderTotal,
                             !.revenue = Some(REVENUE),
                             !.age = IF Truthy(Stored(storedInfo, "product_id"))
                                        \/ Truthy(Stored(storedInfo, "product_price"))
                                     THEN Age(Stored(storedInfo, "recorded"))
                                     ELSE Null]
         IN IF s = "first" /\ ~Truthy(orderTotal)
            THEN [b2 EXCEPT !.window.purchaseTracked = FALSE]
            ELSE clearStoredProductInfo(trackEvent(b2, purchase))

-----------------------------------------------------------------------------
(* widget.js: content injection, first script only *)

\* One call of tryInject for a call of injectContent with these arguments
\* (html, css, js: whether the text is non-empty).
tryInject(b, call) ==
    IF ~b.dom.element
    THEN IF call.attempt < call.retries
         THEN [b EXCEPT !.attempts = Append(@, [call EXCEPT !.attempt = @ + 1])]
         ELSE [b EXCEPT !.console = @ \cup {[warning |-> "Element not found",
                                             lookups |-> call.attempt + 1]}]
    ELSE IF b.dom.wrappers > 0 THEN b
    ELSE [b EXCEPT !.dom.wrappers = IF call.html THEN @ + 1 ELSE @,
                   !.dom.styles = IF call.css /\ @ = 0 THEN 1 ELSE @,
                   !.dom.scripts = IF call.js THEN @ + 1 ELSE @]

injectContent(b, html, css, js, retries) ==
    tryInject(b, [html |-> html, css |-> css, js |-> js, retries |-> retries,
                  attempt |-> 0])

injectAIBanner(b) == injectContent(b, TRUE, TRUE, FALSE, RETRIES)

-----------------------------------------------------------------------------
(* public/widget.js *)

setWithExpiry(b, key, value) ==
    setItem(b, key, [value |-> value, expiry |-> clock + TRACKING_EXPIRY_DAYS])

Expired(b, key) == ~IsNull(getItem(b, key)) /\ clock > Val(getItem(b, key)).expiry

\* What getWithExpiry returns, and what it leaves in localStorage.
getWithExpiry(b, key) ==
    IF IsNull(getItem(b, key)) \/ Expired(b, key) THEN Null
    ELSE Some(Val(getItem(b, key)).value)
ReadWithExpiry(b, key) == IF Expired(b, key) THEN removeItem(b, key) ELSE b

removeTracking_Keep(b) == b

removeTracking(b) ==
    [b EXCEPT !.localStorage =
        [k \in StorageKeys |->
            IF k \in {"kp_search_id", "kp_last_product_id"} THEN Null ELSE @[k]]]

\* The day an item that has not expired was stored on.
StoredOn(b, key) ==
    IF IsNull(getWithExpiry(b, key)) THEN Null
    ELSE Some(Val(getItem(b, key)).expiry - TRACKING_EXPIRY_DAYS)

trackClickPurchase(b) ==
    LET searchId == getWithExpiry(b, "kp_search_id")
        b1 == ReadWithExpiry(b, "kp_search_id")
        productId == getWithExpiry(b1, "kp_last_product_id")
        b2 == ReadWithExpiry(b1, "kp_last_product_id")
        purchase == [NoEvent EXCEPT
                        !.event = "purchase", !.by = "public",
                        !.search_id = searchId,
                        !.product_id = Or(productId, Null),
                        !.age = Age(StoredOn(b, "kp_search_id"))]
    IN IF ~Truthy(searchId) THEN b1
       ELSE removeTracking(fetch(b2, purchase))

checkPurchasePage(b) == IF b.location.thankyou THEN trackClickPurchase(b) ELSE b

\* bsclick=1 with a search id and a product id: the three items are stored,
\* a click is posted and replaceState takes the parameters out of the URL.
checkClickTracking(b) ==
    IF IsNull(b.location.click) THEN b
    ELSE LET searchId == Val(b.location.click).search_id
             productId == Val(b.location.click).product_id
             b1 == setWithExpiry(b, "kp_search_id", searchId)
             b2 == setWithExpiry(b1, "kp_last_product_id", productId)
             click == [NoEvent EXCEPT
                          !.event = "click", !.by = "public",
                          !.search_id = Some(searchId),
                          !.product_id = Some(productId)]
         IN IF searchId = 0 \/ productId = 0 THEN b
            ELSE [fetch(b2, click) EXCEPT !.location.click = Null]

-----------------------------------------------------------------------------
(* The browser: page loads, navigation, timers and the handlers they run *)

\* Navigations of one visit.
MaxNavigations == 2
\* The last day of the visit.
MaxClock == 8
\* The time that passes between two handlers: a week, or a day more.
Delays == {TRACKING_EXPIRY_DAYS, TRACKING_EXPIRY_DAYS + 1}
\* injectContent calls and script elements on one document.
MaxInjections == 2

serverVars == <<products, product_categories, searchVars, ingestVars, normalizer>>

\* The tracking part of init and of the pushState timeout of widget.js.
Track(s, b) ==
    LET b1 == IF isProductPage(b.location) THEN trackProductView(s, b) ELSE b
    IN IF isThankYouPage(b1.location) THEN trackPurchase(s, b1) ELSE b1

\* The banner is injected by the first script only.
Banner(s, b) == IF s = "first" THEN injectAIBanner(b) ELSE b

\* init of script s, at DOMContentLoaded or when the script is evaluated
\* later: the scripts of one page run in document order. init of widget.js
\* wraps history.pushState.
init(s) ==
    /\ s \in loaded \ ready
    /\ s = "second" /\ "first" \in loaded => "first" \in ready
    /\ IF s = "public"
       THEN Becomes(checkPurchasePage(checkClickTracking(Browser)))
       ELSE Becomes(Banner(s, Track(s, Browser)))
    /\ ready' = ready \cup {s}
    /\ UNCHANGED <<loaded, clock, timers, navs, serverVars>>

\* The wrappers of history.pushState, innermost first.
Wrappers == SelectSeq(<<"first", "second">>, LAMBDA s : s \in ready)

\* The shop's router calls history.pushState: the URL and the document
\* change, and each wrapper sets its 100 ms timeout.
PushState(page) ==
    /\ navs < MaxNavigations
    /\ navs' = navs + 1
    /\ location' = page
    /\ timers' = timers \o Wrappers
    /\ UNCHANGED <<loaded, clock, window, localStorage, ready, dom, attempts,
                   console, sent, serverVars>>

\* The visitor follows a link or reloads: a new document and a new window,
\* the same localStorage.
FullLoad(page) ==
    /\ navs < MaxNavigations
    /\ navs' = navs + 1
    /\ location' = page
    /\ window' = NoFlags
    /\ ready' = {}
    /\ timers' = <<>>
    /\ dom' = Document(page)
    /\ attempts' = <<>>
    /\ console' = {}
    /\ UNCHANGED <<loaded, clock, localStorage, sent, serverVars>>

\* The oldest 100 ms timeout of a pushState wrapper fires.
PushStateTimeout ==
    /\ timers # <<>>
    /\ LET s == Head(timers)
       IN Becomes(Banner(s, Track(s, [Browser EXCEPT !.window = NoFlags])))
    /\ timers' = Tail(timers)
    /\ UNCHANGED <<loaded, clock, ready, navs, serverVars>>

\* The setInterval callback of widget.js, every 2 seconds from the moment
\* the script is evaluated.
Poll(s) ==
    /\ s \in loaded \cap WidgetScripts
    /\ LET b == Browser
           b1 == IF isProductPage(b.location) /\ ~b.window.productViewTracked
                 THEN trackProductView(s, b) ELSE b
           b2 == IF isThankYouPage(b1.location) /\ ~b1.window.purchaseTracked
                 THEN trackPurchase(s, b1) ELSE b1
       IN Becomes(b2)
    /\ UNCHANGED <<loaded, clock, ready, timers, navs, serverVars>>

\* The page calls window.KunstpakketAnalytics.trackProductView().
ApiTrackProductView ==
    /\ Api(loaded) \in WidgetScripts
    /\ Becomes(trackProductView(Api(loaded), Browser))
    /\ UNCHANGED <<loaded, clock, ready, timers, navs, serverVars>>

\* The page calls window.KunstpakketAnalytics.trackPurchase(), which in
\* public/widget.js is checkPurchasePage.
ApiTrackPurchase ==
    /\ IF Api(loaded) = "public"
       THEN Becomes(checkPurchasePage(Browser))
       ELSE Becomes(trackPurchase(Api(loaded), Browser))
    /\ UNCHANGED <<loaded, clock, ready, timers, navs, serverVars>>

\* The page calls window.KunstpakketAnalytics.trackClick() of public/widget.js.
ApiTrackClick ==
    /\ Api(loaded) = "public"
    /\ Becomes(checkClickTracking(Browser))
    /\ UNCHANGED <<loaded, clock, ready, timers, navs, serverVars>>

\* The page calls window.KunstpakketAnalytics.injectContent(selector, html,
\* css, js), which only the first script of widget.js offers.
ApiInjectContent(html, css, js) ==
    /\ Api(loaded) = "first"
    /\ dom.scripts + Len(attempts) < MaxInjections
    /\ Becomes(injectContent(Browser, html, css, js, RETRIES))
    /\ UNCHANGED <<loaded, clock, ready, timers, navs, serverVars>>

\* The oldest 500 ms timeout of tryInject fires.
RetryTimeout ==
    /\ attempts # <<>>
    /\ Becomes(tryInject([Browser EXCEPT !.attempts = Tail(@)], Head(attempts)))
    /\ UNCHANGED <<loaded, clock, ready, timers, navs, serverVars>>

\* The shop renders the target element.
ElementAppears ==
    /\ ~dom.element
    /\ dom' = [dom EXCEPT !.element = TRUE]
    /\ UNCHANGED <<loaded, location, clock, window, localStorage, ready, timers,
                   attempts, console, sent, navs, serverVars>>

\* Time passes.
Tick ==
    /\ \E d \in Delays :
          /\ clock + d <= MaxClock
          /\ clock' = clock + d
    /\ UNCHANGED <<loaded, location, window, localStorage, ready, timers, dom,
                   attempts, console, sent, navs, serverVars>>

OpenOn(scripts, page) ==
    /\ IngestInitOn("shop1", "empty")
    /\ normalizer = NotCalled
    /\ loaded = scripts
    /\ location = page
    /\ clock = 0
    /\ window = NoFlags
    /\ localStorage = EmptyStorage
    /\ ready = {}
    /\ timers = <<>>
    /\ dom = Document(page)
    /\ attempts = <<>>
    /\ console = {}
    /\ sent = <<>>
    /\ navs = 0

\* A visitor with an empty localStorage opens a page of a shop that includes
\* one of the scripts, or widget.js whole.
WidgetInit == \E scripts \in Installations : \E page \in Sitemap(scripts) : OpenOn(scripts, page)

WidgetNext ==
    \/ \E s \in Scripts : init(s)
    \/ \E page \in Sitemap(loaded) : PushState(page)
    \/ \E page \in Sitemap(loaded) : FullLoad(page)
    \/ PushStateTimeout
    \/ \E s \in WidgetScripts : Poll(s)
    \/ ApiTrackProductView
    \/ ApiTrackPurchase
    \/ ApiTrackClick
    \/ Tick

WidgetSpec == WidgetInit /\ [][WidgetNext]_vars

-----------------------------------------------------------------------------
(* Widget properties *)

Views == {i \in DOMAIN sent : sent[i].event = "view"}
Purchases == {i \in DOMAIN sent : sent[i].event = "purchase"}

\* C21: a view event is posted only from a URL that holds
\* utm_source=bluestars-ai-site, and no two view events are posted after the
\* same navigation, however init, the 2-second poll and direct calls of
\* trackProductView interleave.
C21_OneViewPerNavigation ==
    /\ \A i \in Views : sent[i].utm
    /\ \A i, j \in Views : sent[i].nav = sent[j].nav => i = j

\* A step of widget.js on a thank-you page in which trackPurchase is called
\* and finds window.purchaseTracked unset.
TrackPurchaseCalled ==
    /\ isThankYouPage(location)
    /\ \/ PushStateTimeout
       \/ /\ ~window.purchaseTracked
          /\ \/ \E s \in WidgetScripts : init(s) \/ Poll(s)
             \/ Api(loaded) \in WidgetScripts /\ ApiTrackPurchase

\* No order total on the page and no price in a stored view that is still valid.
NoOrderTotal ==
    /\ ~Truthy(extractOrderTotal(location))
    /\ ~Truthy(Stored(getStoredProductInfo(Browser), "product_price"))

\* C22: a call of trackPurchase on a thank-you page posts one purchase event
\* with revenue 10, and with order_total 0 when no order total is found on
\* the page or in the stored product info.
C22_PurchaseAlwaysSent ==
    [][TrackPurchaseCalled =>
          /\ Len(sent') = Len(sent) + 1
          /\ sent'[Len(sent')].event = "purchase"
          /\ sent'[Len(sent')].revenue = Some(REVENUE)
          /\ NoOrderTotal => sent'[Len(sent')].order_total = Some(0)]_vars

-----------------------------------------------------------------------------
(* Content injection on a page whose target element is rendered late *)

\* The first script, alone or with the second one, on a page without the
\* .container-bar element. The page calls injectContent for the same
\* selector, with css and js and with or without html; the router does not
\* navigate while MaxInjections timeouts are pending.
InjectInit == \E scripts \in {{"first"}, {"first", "second"}} : OpenOn(scripts, Shell)

InjectNext ==
    \/ \E s \in WidgetScripts : init(s)
    \/ Len(attempts) + Len(timers) < MaxInjections /\ PushState(Shell)
    \/ FullLoad(Shell)
    \/ PushStateTimeout
    \/ \E html \in BOOLEAN : ApiInjectContent(html, TRUE, TRUE)
    \/ RetryTimeout
    \/ ElementAppears

InjectSpec == InjectInit /\ [][InjectNext]_vars

\* C23: however often injectContent is called for a selector (by init, by
\* the re-injection after a pushState, by the page, with retry timers
\* overlapping), the document holds at most one wrapper, one style element
\* and one script element injected for it.
C23_InjectedAtMostOnce ==
    /\ dom.wrappers <= 1
    /\ dom.styles <= 1
    /\ dom.scripts <= 1

\* C24: a call of injectContent whose target element never appears looks the
\* element up at most 10 times before it logs the warning and stops.
C24_AtMostTenLookups ==
    /\ \A call \in {attempts[i] : i \in DOMAIN attempts} : call.attempt <= RETRIES
    /\ \A w \in console : w.lookups <= RETRIES

\* The retry chains end: a tryInject timeout that fires is gone, or has set
\* one timeout in its place with the attempt counted up, and no attempt is
\* counted beyond the retries.
RetriesEnd ==
    [][RetryTimeout =>
          LET call == Head(attempts)
          IN \/ attempts' = Tail(attempts)
             \/ /\ ~dom.element /\ call.attempt < call.retries
                /\ attempts' = Append(Tail(attempts), [call EXCEPT !.attempt = @ + 1])]_vars

\* A tryInject that finds the element, and no wrapper in it, injects what it
\* was given; one that does not find it injects nothing.
InjectsWhenFound ==
    [][RetryTimeout =>
          LET call == Head(attempts)
          IN IF dom.element /\ dom.wrappers = 0
             THEN /\ call.html => dom'.wrappers = 1
                  /\ call.css => dom'.styles = 1
                  /\ call.js => dom'.scripts = dom.scripts + 1
             ELSE dom' = dom]_vars

\* A step of public/widget.js on a purchase page in which trackPurchase is
\* called.
ClickPurchaseCalled ==
    /\ isThankYouPage(location)
    /\ \/ init("public")
       \/ Api(loaded) = "public" /\ ApiTrackPurchase

ViewKeys == {"kp_product_id", "kp_product_price", "kp_view_timestamp"}

\* C25: a purchase event carries stored product info or a stored search id
\* only if it was stored at most 7 days before, and a read that finds the
\* stored data expired removes it from localStorage.
C25_StoredDataExpires ==
    [][/\ \A i \in DOMAIN sent' :
             sent'[i].event = "purchase" /\ ~IsNull(sent'[i].age)
                 => Val(sent'[i].age) <= TRACKING_EXPIRY_DAYS
       /\ TrackPurchaseCalled /\ ViewTooOld(Browser)
             => \A k \in ViewKeys : IsNull(localStorage'[k])
       /\ ClickPurchaseCalled /\ Expired(Browser, "kp_search_id")
             => IsNull(localStorage'["kp_search_id"])]_vars

\* A view was stored, and the purchase that followed more than 7 days later
\* carries nothing of it and left nothing of it in localStorage.
C25_Witness ==
    /\ Len(sent) = 2
    /\ sent[1].event = "view" /\ sent[2].event = "purchase"
    /\ IsNull(sent[2].age)
    /\ clock > TRACKING_EXPIRY_DAYS
    /\ \A k \in ViewKeys : IsNull(localStorage[k])

\* C26: public/widget.js posts a purchase only for a click with a search id
\* and a product id that it stored before, at most 7 days ago, and that no
\* purchase used since; after a purchase the stored search id and product id
\* are gone, so that another visit of the purchase page posts nothing until
\* the next click.
C26_PurchaseNeedsFreshClick ==
    /\ \A j \in Purchases :
          sent[j].by = "public" =>
              /\ ~IsNull(sent[j].age)
              /\ Val(sent[j].age) <= TRACKING_EXPIRY_DAYS
              /\ \E i \in 1..(j - 1) :
                    /\ sent[i].event = "click"
                    /\ sent[i].search_id = sent[j].search_id
                    /\ Truthy(sent[i].product_id)
                    /\ \A k \in (i + 1)..(j - 1) : sent[k].event # "purchase"
    /\ sent # <<>> /\ sent[Len(sent)].event = "purchase" /\ sent[Len(sent)].by = "public"
          => IsNull(localStorage["kp_search_id"]) /\ IsNull(localStorage["kp_last_product_id"])

\* A click, a purchase, and the purchase page loaded once more: nothing
\* further was posted.
C26_Witness ==
    /\ loaded = {"public"}
    /\ Len(sent) = 2
    /\ sent[1].event = "click" /\ sent[2].event = "purchase"
    /\ sent[2].nav = 1
    /\ navs = 2 /\ isThankYouPage(location) /\ "public" \in ready

WidgetPurchases == {i \in Purchases : sent[i].by \in WidgetScripts}

\* The stored product info a purchase carried is carried by no later one:
\* a purchase with no view since the purchase before it carries none.
ClearedAfterPurchase ==
    \A i, j \in WidgetPurchases :
        i < j /\ (\A k \in (i + 1)..(j - 1) : sent[k].event # "view")
            => IsNull(sent[j].age)

\* C27: widget.js posts at most one purchase event after a navigation,
\* however init, the 2-second poll and direct calls of trackPurchase
\* interleave, and the product info stored by a view is cleared with the
\* purchase that carries it and attached to no later purchase.
C27_OnePurchasePerNavigation ==
    /\ \A i, j \in WidgetPurchases : sent[i].nav = sent[j].nav => i = j
    /\ ClearedAfterPurchase

-----------------------------------------------------------------------------
(* Batches of the ingestion run *)

\* The texts processBatch hands to embedMany, in the order of the batch.
BatchTexts(r) ==
    LET batch == CurrentBatch(r)
    IN [k \in DOMAIN batch |-> buildEmbeddingText(Data(r), batch[k])]

BatchIds(r) == {CurrentBatch(r)[k].id : k \in DOMAIN CurrentBatch(r)}

\* C28: the run issues the embedding call once per batch, when the batch
\* starts; the call returns one vector per text of the batch, in batch order,
\* before any row of the batch is written; the row of product i of the batch
\* gets vector i; and when the call fails the run writes no product row and
\* no join row of the batch.
C28_OneEmbeddingPerBatch ==
    [][LET before == run[FirstRun]
           after == run'[FirstRun]
           written == \/ products' # products
                      \/ product_categories' # product_categories
                      \/ product_tags' # product_tags
       IN /\ after.pc = "embed" /\ after # before
                => /\ after.embeddings = <<>>
                   /\ before.pc \in {"idle"} \cup Over \/ after.b = before.b + 1
          /\ after.b # before.b
                => after.b = 0 \/ (after.pc = "embed" /\ after.embeddings = <<>>)
          /\ before.pc = "embed" /\ after.pc = "select"
                => /\ after.b = before.b
                   /\ after.embeddings = embedMany(BatchTexts(FirstRun))
                   /\ Len(after.embeddings) = Len(CurrentBatch(FirstRun))
                   /\ ~written
          /\ written
                => /\ before.pc \in {"write", "cats", "tagjoin"}
                   /\ before.embeddings = embedMany(BatchTexts(FirstRun))
          /\ products' # products
                => products'[CurrentProduct(FirstRun).id].embedding
                       = Some(before.embeddings[before.i])
          /\ after.failed_in = "embed"
                => /\ after.pc = "failed"
                   /\ ~written
                   /\ BatchIds(FirstRun) \cap after.wrote = {}]_vars

\* The embedding call of the second batch failed: the first batch is
\* stored, nothing of the second.
C28_Witness ==
    /\ run[FirstRun].failed_in = "embed"
    /\ run[FirstRun].b = 2
    /\ Cardinality(run[FirstRun].wrote) = BATCH_SIZE
    /\ Cardinality(DOMAIN products) = BATCH_SIZE

\* The batches of a list are consecutive slices of it: every position lies
\* in one batch, at its place; every batch but the last holds BATCH_SIZE
\* records and the last one at least one and at most BATCH_SIZE.
Partitioned(list) ==
    LET n == Len(list)
        last == NumBatches(n)
    IN /\ \A b \in 1..last :
             /\ Len(BatchOf(list, b)) >= 1
             /\ Len(BatchOf(list, b)) <= BATCH_SIZE
             /\ b < last => Len(BatchOf(list, b)) = BATCH_SIZE
       /\ n = (IF last = 0 THEN 0 ELSE (last - 1) * BATCH_SIZE + Len(BatchOf(list, last)))
       /\ \A k \in 1..n :
             BatchOf(list, ((k - 1) \div BATCH_SIZE) + 1)[((k - 1) % BATCH_SIZE) + 1] = list[k]

\* How many products the run has dealt with: those of the batches before
\* the current one and those before the current product.
Position(r) == (run[r].b - 1) * BATCH_SIZE + run[r].i

\* C29: the batches of a run are consecutive slices of the visible records
\* (of any number of them), of BATCH_SIZE records but for the last; the run
\* takes the records one by one in input order, each once; and what a
\* complete run leaves in the store is a function of the records and the
\* store it started on in which the batch size does not occur.
C29_BatchesPartitionInput ==
    LET data == Data(FirstRun)
        visible == visibleProducts(data)
        st == run[FirstRun]
    IN /\ st.pc = "embed" =>
             \A n \in 0..Len(visible) : Partitioned(SubSeq(visible, 1, n))
       /\ st.pc \in {"select", "write", "cats", "tagjoin"} =>
             /\ CurrentProduct(FirstRun) = visible[Position(FirstRun)]
             /\ st.wrote = {visible[k].id :
                               k \in 1..(IF st.pc \in {"cats", "tagjoin"}
                                         THEN Position(FirstRun)
                                         ELSE Position(FirstRun) - 1)}
       /\ st.pc = "done" /\ Len(ended) = 1 =>
             /\ st.wrote = {visible[k].id : k \in DOMAIN visible}
             /\ ProductScalars = ProductsAfterOneRun(initial, data)
             /\ product_categories =
                   InitialCategoryLinks(initial) \cup LinksOfVisible(data, data.categoriesProducts)
             /\ product_tags =
                   InitialTagLinks(initial) \cup LinksOfVisible(data, data.tagsProducts)

\* The first run over the large shop is complete: a full batch and a batch
\* of one record.
C29_Witness ==
    /\ run[FirstRun].pc = "done"
    /\ Len(ended) = 1
    /\ run[FirstRun].b = 2
    /\ Len(visibleProducts(Data(FirstRun))) > BATCH_SIZE
    /\ Cardinality(run[FirstRun].wrote) = Len(visibleProducts(Data(FirstRun)))

-----------------------------------------------------------------------------
(* The similarity query returns the best-ranked rows, api/search.ts:201-216 *)

\* The stored products that are visible, embedded and at or above the
\* similarity floor for the query vector of request r.
EligibleIds(r) ==
    {i \in DOMAIN products :
        /\ products[i].is_visible
        /\ ~IsNull(products[i].embedding)
        /\ 100 * Dot(Val(products[i].embedding), Val(qvec[r])) >= 32 * VecNorm2}

\* Product a ranks at or above product b for request r: a higher similarity,
\* or the same similarity and units-sold not after b's.
RanksAtOrAbove(a, b, r) ==
    LET sa == Dot(Val(products[a].embedding), Val(qvec[r]))
        sb == Dot(Val(products[b].embedding), Val(qvec[r]))
    IN \/ sa > sb
       \/ /\ sa = sb
          /\ SoldNotAfter(products[a].stock_sold, products[b].stock_sold)

\* C30: the items of a successful response are distinct eligible products;
\* when fewer than 50 products are eligible all of them are returned, and when
\* an eligible product is missing from the response the response holds exactly
\* 50 items, each of which ranks at or above the missing product in the
\* (similarity descending, units-sold descending) order.
C30_BestRankedReturned ==
    \A r \in Reqs : \A k \in SuccessResponses(r) :
        LET items == ResultsOf(r, k).items
            ids   == {items[n].id : n \in 1..Len(items)}
        IN /\ Cardinality(ids) = Len(items)
           /\ ids \subseteq EligibleIds(r)
           /\ Cardinality(EligibleIds(r)) < 50 => ids = EligibleIds(r)
           /\ \A m \in EligibleIds(r) \ ids :
                  /\ Len(items) = 50
                  /\ \A n \in 1..50 : RanksAtOrAbove(items[n].id, m, r)

\* More than 50 products are eligible: the response holds 50 items and leaves
\* out an eligible product that ties the last item in similarity and has sold
\* fewer units.
C30_Witness ==
    \E r \in Reqs : \E k \in SuccessResponses(r) :
        LET items == ResultsOf(r, k).items
            ids   == {items[n].id : n \in 1..Len(items)}
        IN /\ Len(items) = 50
           /\ \E m \in EligibleIds(r) \ ids :
                  /\ Dot(Val(products[m].embedding), Val(qvec[r]))
                       = Val(items[50].similarity)
                  /\ products[m].stock_sold # products[items[50].id].stock_sold

=============================================================================
